---------------------------- MODULE Spec2Model ----------------------------
(***************************************************************************)
(* MHF-Simulator: the CVD risk scorer of src/mhf/risk_engine.py (the       *)
(* Framingham/CCS point tables, the points-to-percentage lookup and the    *)
(* activity-adjusted MHF risk), the mortality scorer of                    *)
(* src/mhf/mortality.py (Lee index and C-score), the bounded samplers of   *)
(* src/mhf/sampling.py and the profile assemblers of src/mhf/generator.py, *)
(* as state machines over a profile row, a sampler call and an assembled   *)
(* frame.                                                                  *)
(*                                                                         *)
(* Python values are tagged records; floats are exact rationals n/d in     *)
(* lowest terms (or NaN); strings are sequences of one-character strings,  *)
(* so that str.strip(), str.lower() and float(str) are computed, not       *)
(* assumed.  A value that is used more than once is bound once, by         *)
(* x \in {e}, as an assignment binds a name to a value.                    *)
(***************************************************************************)
EXTENDS Integers, Sequences, FiniteSets, TLC

VARIABLES
    row,              \* the profile row being scored (a pd.Series)
    pc,               \* where the row is in the scoring pipeline
    points,           \* result of framingham_points_from_row (Optional[int])
    framingham_risk,  \* result of framingham_risk_from_row   (float)
    mhf_risk,         \* result of mhf_risk_row               (float)
    call,             \* a direct call of _risk_from_points_ccs and its result
    mrow,             \* the mortality profile row being scored
    mpc,              \* where that row is in the mortality pipeline
    lee_points,       \* result of lee_points_from_row (Optional[int])
    lee_pct,          \* result of lee_mortality_pct   (float)
    c_score,          \* result of c_score_from_row    (Optional[int])
    c_category,       \* result of c_score_category    (str)
    smp,              \* one call of a sampler: its arguments, locals, result
    frame,            \* a data frame scored row by row by several callers
    gen,              \* one run of an assembler: configuration, draws, rows
    debug             \* one call of framingham_debug_row and its outcome

mortVars == <<mrow, mpc, lee_points, lee_pct, c_score, c_category>>

asmVars == <<frame, gen, debug>>

vars == <<row, pc, points, framingham_risk, mhf_risk, call, mortVars, smp,
          asmVars>>

-----------------------------------------------------------------------------
(* Exact rationals standing for Python floats.                             *)

Only(S) == CHOOSE x \in S : TRUE

Abs(x) == IF x < 0 THEN -x ELSE x

RECURSIVE GCD(_, _)
GCD(a0, b0) ==
    Only({ IF b = 0 THEN a ELSE GCD(b, a % b) : a \in {a0}, b \in {b0} })

\* The float n/d, in lowest terms with a positive denominator.
F(n0, d0) ==
    Only({ [nan |-> FALSE, n |-> n \div g, d |-> d \div g] :
           n \in {IF d0 < 0 THEN -n0 ELSE n0},
           d \in {Abs(d0)},
           g \in {GCD(Abs(n0), Abs(d0))} })

NaN == [nan |-> TRUE, n |-> 0, d |-> 1]

isnan(x) == x.nan

FLt(a0, b0) == \E a \in {a0}, b \in {b0} : a.n * b.d < b.n * a.d
FLe(a0, b0) == \E a \in {a0}, b \in {b0} : a.n * b.d <= b.n * a.d

FMul(a0, b0) ==
    Only({ IF a.nan \/ b.nan THEN NaN ELSE F(a.n * b.n, a.d * b.d) :
           a \in {a0}, b \in {b0} })
FDiv(a0, b0) ==
    Only({ IF a.nan \/ b.nan THEN NaN ELSE F(a.n * b.d, a.d * b.n) :
           a \in {a0}, b \in {b0} })
FSub(a0, b0) ==
    Only({ IF a.nan \/ b.nan THEN NaN
           ELSE F(a.n * b.d - b.n * a.d, a.d * b.d) :
           a \in {a0}, b \in {b0} })

\* Python's round(x) on a float: nearest integer, ties to the even one.
PyRound(x0) ==
    Only({ IF r2 < x.d THEN fl
           ELSE IF r2 > x.d THEN fl + 1
           ELSE IF fl % 2 = 0 THEN fl ELSE fl + 1 :
           x \in {x0},
           fl \in {x0.n \div x0.d},
           r2 \in {2 * (x0.n - (x0.n \div x0.d) * x0.d)} })

\* Optional[int]
None == [some |-> FALSE, v |-> 0]
Some(i) == [some |-> TRUE, v |-> i]

-----------------------------------------------------------------------------
(* Python values as they arrive in a row.                                  *)

NoneV == [t |-> "none", n |-> 0, d |-> 1, s |-> <<>>]
NaNV == [t |-> "nan", n |-> 0, d |-> 1, s |-> <<>>]
BoolV(b) == [t |-> "bool", n |-> IF b THEN 1 ELSE 0, d |-> 1, s |-> <<>>]
NumV(n, d) == [t |-> "num", n |-> n, d |-> d, s |-> <<>>]
IntV(n) == NumV(n, 1)
StrV(s) == [t |-> "str", n |-> 0, d |-> 1, s |-> s]

(* Strings.                                                                *)
UpperCase == <<"A","B","C","D","E","F","G","H","I","J","K","L","M",
               "N","O","P","Q","R","S","T","U","V","W","X","Y","Z">>
LowerCase == <<"a","b","c","d","e","f","g","h","i","j","k","l","m",
               "n","o","p","q","r","s","t","u","v","w","x","y","z">>
Digits == <<"0","1","2","3","4","5","6","7","8","9">>
Whitespace == {" ", "\t", "\n"}

LowerChar(c0) ==
    Only({ IF \E i \in 1..26 : UpperCase[i] = c
           THEN LowerCase[CHOOSE i \in 1..26 : UpperCase[i] = c]
           ELSE c : c \in {c0} })

\* str.lower()
lower(s0) == Only({ [i \in 1..Len(s) |-> LowerChar(s[i])] : s \in {s0} })

\* str.strip(): the longest slice that neither starts nor ends with whitespace
strip(s0) ==
    Only({ IF \A i \in 1..Len(s) : s[i] \in Whitespace THEN <<>>
           ELSE SubSeq(s,
                       CHOOSE i \in 1..Len(s) :
                           /\ s[i] \notin Whitespace
                           /\ \A j \in 1..(i - 1) : s[j] \in Whitespace,
                       CHOOSE i \in 1..Len(s) :
                           /\ s[i] \notin Whitespace
                           /\ \A j \in (i + 1)..Len(s) : s[j] \in Whitespace) :
           s \in {s0} })

IsDigit(c0) == \E c \in {c0} : \E i \in 1..10 : Digits[i] = c
DigitVal(c0) == Only({ (CHOOSE i \in 1..10 : Digits[i] = c) - 1 : c \in {c0} })

\* The number a sequence of decimal digits writes.
RECURSIVE DigitsVal(_)
DigitsVal(s0) ==
    Only({ IF s = <<>> THEN 0
           ELSE 10 * DigitsVal(SubSeq(s, 1, Len(s) - 1)) + DigitVal(s[Len(s)]) :
           s \in {s0} })

RECURSIVE Pow10(_)
Pow10(k0) == Only({ IF k = 0 THEN 1 ELSE 10 * Pow10(k - 1) : k \in {k0} })

\* float(s) for a str: surrounding whitespace, an optional sign, decimal
\* digits with at most one point.  Any other text raises ValueError: NaN
\* here, which PyFloat tells from a parsed "nan".
ParseUnsigned(body, sign) ==
    LET dots == {i \in 1..Len(body) : body[i] = "."}
        digs == {i \in 1..Len(body) : IsDigit(body[i])}
    IN  IF /\ digs # {}
           /\ Cardinality(dots) <= 1
           /\ dots \cup digs = 1..Len(body)
        THEN F(sign * DigitsVal(SelectSeq(body, IsDigit)),
               Pow10(IF dots = {} THEN 0 ELSE Len(body) - Only(dots)))
        ELSE NaN

ParseFloat(s0) ==
    Only({ IF s # <<>> /\ Head(s) = "-" THEN ParseUnsigned(Tail(s), -1)
           ELSE IF s # <<>> /\ Head(s) = "+" THEN ParseUnsigned(Tail(s), 1)
           ELSE ParseUnsigned(s, 1) :
           s \in {strip(s0)} })

-----------------------------------------------------------------------------
(* src/mhf/risk_engine.py: helpers.                                        *)

\* float(x): None raises TypeError, text that is no number raises ValueError.
PyFloat(x0) ==
    Only({ CASE x.t = "none" -> [ok |-> FALSE, f |-> NaN]
             [] x.t = "nan"  -> [ok |-> TRUE, f |-> NaN]
             [] x.t = "str"  ->
                    IF lower(strip(x.s)) = <<"n","a","n">>
                    THEN [ok |-> TRUE, f |-> NaN]
                    ELSE Only({ [ok |-> ~p.nan, f |-> p] : p \in {ParseFloat(x.s)} })
             [] OTHER        -> [ok |-> TRUE, f |-> F(x.n, x.d)] :
           x \in {x0} })

\* str(i) of a non-negative whole number.
RECURSIVE NatStr(_)
NatStr(i0) ==
    Only({ IF i < 10 THEN <<Digits[i + 1]>>
           ELSE NatStr(i \div 10) \o <<Digits[(i % 10) + 1]>> : i \in {i0} })

\* str(x).  A number that is not whole prints with a decimal point.
PyStr(x0) ==
    Only({ CASE x.t = "str"  -> x.s
             [] x.t = "none" -> <<"N","o","n","e">>
             [] x.t = "nan"  -> <<"n","a","n">>
             [] x.t = "bool" -> IF x.n = 1 THEN <<"T","r","u","e">>
                                ELSE <<"F","a","l","s","e">>
             [] OTHER        ->
                    (IF x.n < 0 THEN <<"-">> ELSE <<>>)
                    \o (IF x.d = 1 THEN NatStr(Abs(x.n))
                        ELSE NatStr(Abs(x.n) \div x.d) \o <<".">>
                             \o NatStr(Abs(x.n) % x.d)) :
           x \in {x0} })

\* float(x), and 0.0 when float() raises.
_f(x) == Only({ IF r.ok THEN r.f ELSE F(0, 1) : r \in {PyFloat(x)} })

\* Mutant of _to_float: an invalid value silently becomes 0.0.
_to_float_zero(x) == Only({ IF r.ok THEN r.f ELSE F(0, 1) : r \in {PyFloat(x)} })

\* float(x), and NaN when float() raises.
_to_float(x) == Only({ IF r.ok THEN r.f ELSE NaN : r \in {PyFloat(x)} })

TruthyText == { <<"1">>, <<"t","r","u","e">>, <<"t">>, <<"y","e","s">>,
                <<"y">>, <<"o","n">> }
\* Mutant of _to_bool: the text is compared without being lower-cased and
\* "yes" is not accepted.
_to_bool_strict(x0) ==
    \E x \in {x0} :
        CASE x.t = "none" -> FALSE
          [] x.t = "bool" -> x.n = 1
          [] x.t = "num"  -> x.n # 0
          [] x.t = "nan"  -> TRUE
          [] OTHER        -> strip(x.s) \in TruthyText \ { <<"y","e","s">> }

_to_bool(x0) ==
    \E x \in {x0} :
        CASE x.t = "none" -> FALSE
          [] x.t = "bool" -> x.n = 1
          [] x.t = "num"  -> x.n # 0
          [] x.t = "nan"  -> TRUE
          [] OTHER        -> lower(strip(x.s)) \in TruthyText

MaleText == { <<"m">>, <<"m","a","l","e">>, <<"m","a","n">>,
              <<"m","a","s","c","u","l","i","n","e">> }
\* Mutant of _is_male: the earlier definition in the same file, which the
\* later one replaces: no None test and no "masculine".
_is_male_old(x0) ==
    \E x \in {x0} :
        lower(strip(PyStr(x)))
            \in { <<"m","a","l","e">>, <<"m">>, <<"m","a","n">> }

_is_male(x0) ==
    \E x \in {x0} :
        IF x.t = "none" THEN FALSE
        ELSE lower(strip(PyStr(x))) \in MaleText

_is_valid_number(x) == ~isnan(_to_float(x))
\* Mutant of MGDL_PER_MMOLL: the glucose factor in place of the cholesterol one.
MGDL_PER_MMOLL_glucose == F(18, 1)

\* MGDL_PER_MMOLL = 38.67
MGDL_PER_MMOLL == F(3867, 100)

_ensure_mmol_tc(value0) ==
    Only({ IF isnan(value) THEN NaN
           ELSE IF FLt(F(20, 1), value) THEN FDiv(value, MGDL_PER_MMOLL)
           ELSE value :
           value \in {value0} })

\* round(float(x) + 1e-12, 2): the nudge sends an exact tie upwards and, for
\* the short decimals of the model, changes nothing else.
_round2(x0) ==
    Only({ IF isnan(x) THEN x
           ELSE F((200 * x.n + x.d) \div (2 * x.d), 100) :
           x \in {x0} })

-----------------------------------------------------------------------------
(* Tables and rules.                                                       *)
\* Mutant of AGE_THRESH_M: the chart's own thresholds, which start at 30,
\* without the added (0, 0) entry.
AGE_THRESH_M_chart ==
    << <<30, 0>>, <<35, 2>>, <<40, 5>>, <<45, 6>>, <<50, 8>>, <<55, 10>>,
       <<60, 11>>, <<65, 12>>, <<70, 14>>, <<75, 15>> >>

AGE_THRESH_M == << <<0, 0>>, <<30, 0>>, <<35, 2>>, <<40, 5>>, <<45, 6>>,
                   <<50, 8>>, <<55, 10>>, <<60, 11>>, <<65, 12>>, <<70, 14>>,
                   <<75, 15>> >>
AGE_THRESH_W == << <<0, 0>>, <<30, 0>>, <<35, 2>>, <<40, 4>>, <<45, 5>>,
                   <<50, 7>>, <<55, 8>>, <<60, 9>>, <<65, 10>>, <<70, 11>>,
                   <<75, 12>> >>

SetMax(S) == CHOOSE m \in S : \A k \in S : k <= m
SetMin(S) == CHOOSE m \in S : \A k \in S : m <= k

\* The loop over reversed(table): the first lo <= a met is the one of
\* highest index; with no hit pts keeps table[-1][1].
AgeLookup(a, table) ==
    LET hit == {i \in 1..Len(table) : a >= table[i][1]}
    IN  IF hit = {} THEN table[Len(table)][2] ELSE table[SetMax(hit)][2]

_age_points_ccs(age, male) ==
    Only({ IF isnan(a) \/ FLt(a, F(0, 1)) THEN None
           ELSE Some(AgeLookup(PyRound(a),
                               IF male THEN AGE_THRESH_M ELSE AGE_THRESH_W)) :
           a \in {_to_float(age)} })

_hdl_points_ccs(hdl_mmol) ==
    Only({ IF isnan(v) THEN None
           ELSE IF FLe(F(160, 100), v) THEN Some(-2)
           ELSE IF FLe(F(130, 100), v) /\ FLt(v, F(160, 100)) THEN Some(-1)
           ELSE IF FLe(F(120, 100), v) /\ FLt(v, F(130, 100)) THEN Some(0)
           ELSE IF FLe(F(90, 100), v) /\ FLt(v, F(120, 100)) THEN Some(1)
           ELSE Some(2) :
           v \in {_round2(hdl_mmol)} })

_tc_points_ccs(tc_mmol, male) ==
    Only({ IF isnan(v) THEN None
           ELSE IF male THEN
               IF FLt(v, F(410, 100)) THEN Some(0)
               ELSE IF FLe(F(410, 100), v) /\ FLt(v, F(520, 100)) THEN Some(1)
               ELSE IF FLe(F(520, 100), v) /\ FLt(v, F(620, 100)) THEN Some(2)
               ELSE IF FLe(F(620, 100), v) /\ FLt(v, F(720, 100)) THEN Some(3)
               ELSE Some(4)
           ELSE
               IF FLt(v, F(410, 100)) THEN Some(0)
               ELSE IF FLe(F(410, 100), v) /\ FLt(v, F(520, 100)) THEN Some(1)
               ELSE IF FLe(F(520, 100), v) /\ FLt(v, F(620, 100)) THEN Some(3)
               ELSE IF FLe(F(620, 100), v) /\ FLt(v, F(720, 100)) THEN Some(4)
               ELSE Some(5) :
           v \in {_round2(tc_mmol)} })

SBP_BANDS(treated, male) ==
    IF male THEN
        IF treated
        THEN << <<0,119,0>>, <<120,129,2>>, <<130,139,3>>, <<140,149,4>>,
                <<150,159,4>>, <<160,9999,5>> >>
        ELSE << <<0,119,-2>>, <<120,129,0>>, <<130,139,1>>, <<140,149,2>>,
                <<150,159,2>>, <<160,9999,3>> >>
    ELSE
        IF treated
        THEN << <<0,119,-1>>, <<120,129,2>>, <<130,139,3>>, <<140,149,5>>,
                <<150,159,6>>, <<160,9999,7>> >>
        ELSE << <<0,119,-3>>, <<120,129,0>>, <<130,139,1>>, <<140,149,2>>,
                <<150,159,4>>, <<160,9999,5>> >>

\* The loop over bands: the first band in list order with lo <= s_ <= hi.
BandLookup(s_, bands) ==
    LET hit == {i \in 1..Len(bands) : bands[i][1] <= s_ /\ s_ <= bands[i][2]}
    IN  IF hit = {} THEN None ELSE Some(bands[SetMin(hit)][3])

_sbp_points_ccs(sbp, treated, male) ==
    Only({ IF isnan(s) THEN None
           ELSE Only({ BandLookup(s_, bands) :
                       s_ \in {PyRound(s)},
                       bands \in {SBP_BANDS(treated, male)} }) :
           s \in {_to_float(sbp)} })

SMOKER_PTS_M == 4
SMOKER_PTS_W == 3
DIAB_PTS_M == 3
DIAB_PTS_W == 4
\* Mutant of _smoker_points_ccs: the two sexes' values exchanged.
_smoker_points_swapped(male, smoker) ==
    Some(IF _to_bool(smoker)
         THEN (IF male THEN SMOKER_PTS_W ELSE SMOKER_PTS_M) ELSE 0)

_smoker_points_ccs(male, smoker) ==
    Some(IF _to_bool(smoker)
         THEN (IF male THEN SMOKER_PTS_M ELSE SMOKER_PTS_W) ELSE 0)

_diabetes_points_ccs(male, diabetes) ==
    Some(IF _to_bool(diabetes)
         THEN (IF male THEN DIAB_PTS_M ELSE DIAB_PTS_W) ELSE 0)
\* Mutant of PTS_TO_RISK_M: the chart with the entry for 7 points left out.
PTS_TO_RISK_M_gap ==
    << <<-3, 9>>, <<-2, 11>>, <<-1, 14>>, <<0, 16>>, <<1, 19>>, <<2, 23>>,
       <<3, 28>>, <<4, 33>>, <<5, 39>>, <<6, 47>>, <<8, 67>>,
       <<9, 79>>, <<10, 94>>, <<11, 112>>, <<12, 132>>, <<13, 156>>,
       <<14, 184>>, <<15, 216>>, <<16, 253>>, <<17, 294>> >>

\* Points -> 10-year CVD risk per CCS chart: the dict literals as lists of
\* <<key, value>>, the value in tenths of a percent (29.4 % is 294).
PTS_TO_RISK_M ==
    << <<-3, 9>>, <<-2, 11>>, <<-1, 14>>, <<0, 16>>, <<1, 19>>, <<2, 23>>,
       <<3, 28>>, <<4, 33>>, <<5, 39>>, <<6, 47>>, <<7, 56>>, <<8, 67>>,
       <<9, 79>>, <<10, 94>>, <<11, 112>>, <<12, 132>>, <<13, 156>>,
       <<14, 184>>, <<15, 216>>, <<16, 253>>, <<17, 294>> >>
PTS_TO_RISK_W ==
    << <<-3, 9>>, <<-2, 9>>, <<-1, 10>>, <<0, 12>>, <<1, 15>>, <<2, 17>>,
       <<3, 20>>, <<4, 24>>, <<5, 28>>, <<6, 33>>, <<7, 39>>, <<8, 45>>,
       <<9, 53>>, <<10, 63>>, <<11, 73>>, <<12, 86>>, <<13, 100>>,
       <<14, 117>>, <<15, 137>>, <<16, 159>>, <<17, 185>>, <<18, 215>>,
       <<19, 248>>, <<20, 285>> >>

DictHas(dict, key) == \E i \in 1..Len(dict) : dict[i][1] = key
\* dict[key]
DictAt(dict, key) == dict[CHOOSE i \in 1..Len(dict) : dict[i][1] = key][2]
\* dict.get(key, default)
DictGet(dict, key, default) ==
    IF DictHas(dict, key) THEN DictAt(dict, key) ELSE default

_risk_from_points_ccs(total_pts0, male) ==
    Only({ IF male THEN
               IF total_pts <= -3 THEN F(DictAt(PTS_TO_RISK_M, -3), 10)
               ELSE IF total_pts >= 18 THEN F(300, 10)
               ELSE F(DictGet(PTS_TO_RISK_M, total_pts, 300), 10)
           ELSE
               IF total_pts <= -3 THEN F(DictAt(PTS_TO_RISK_W, -3), 10)
               ELSE IF total_pts >= 21 THEN F(300, 10)
               ELSE F(DictGet(PTS_TO_RISK_W, total_pts, 300), 10) :
           total_pts \in {total_pts0} })

-----------------------------------------------------------------------------
(* Primary API.                                                            *)

\* row.get(key)
Get(r, key) == r[key]

\* TC and HDL both pass through the unit heuristic.
MmolOf(raw0) ==
    Only({ IF ~isnan(raw) THEN _ensure_mmol_tc(raw) ELSE NaN : raw \in {raw0} })

\* The six components of framingham_points_from_row, in the order summed.
FraminghamComponents(r0) ==
    Only({ << _age_points_ccs(Get(r, "age"), male),
              _hdl_points_ccs(MmolOf(_to_float(Get(r, "hdl")))),
              _tc_points_ccs(MmolOf(_to_float(Get(r, "tc"))), male),
              _sbp_points_ccs(Get(r, "sbp"), _to_bool(Get(r, "on_bp_meds")), male),
              _smoker_points_ccs(male, Get(r, "smoker")),
              _diabetes_points_ccs(male, Get(r, "diabetes")) >> :
           r \in {r0}, male \in {_is_male(Get(r0, "sex"))} })

framingham_points_from_row(r) ==
    Only({ IF \E i \in 1..Len(comps) : ~comps[i].some THEN None
           ELSE Some(comps[1].v + comps[2].v + comps[3].v + comps[4].v
                     + comps[5].v + comps[6].v) :
           comps \in {FraminghamComponents(r)} })

framingham_risk_from_row(r0) ==
    Only({ IF ~pts.some THEN NaN
           ELSE _risk_from_points_ccs(pts.v, _is_male(Get(r, "sex"))) :
           r \in {r0}, pts \in {framingham_points_from_row(r0)} })

framingham_risk_row(r) == framingham_risk_from_row(r)

framingham_points_row_ccs(r) == framingham_points_from_row(r)

\* np.clip(x, lo, hi)
clip(x0, lo, hi) ==
    Only({ IF isnan(x) THEN NaN
           ELSE IF FLt(x, lo) THEN lo
           ELSE IF FLt(hi, x) THEN hi
           ELSE x :
           x \in {x0} })

\* Python's min(a, b): b only when b < a, so a NaN b gives a.
PyMin(a0, b0) ==
    Only({ IF ~isnan(b) /\ ~isnan(a) /\ FLt(b, a) THEN b ELSE a :
           a \in {a0}, b \in {b0} })
\* Mutant of mhf_risk_row: the reduction is not capped at 0.3.
mhf_risk_row_uncapped(r) ==
    Only({ clip(FMul(base, FSub(F(1, 1), reduction)), F(0, 1), F(100, 1)) :
           base \in {framingham_risk_row(r)},
           reduction \in {FMul(F(3, 10),
                               FDiv(_f(Get(r, "met_min")), F(1000, 1)))} })

\* Mutant of mhf_risk_row: the CVD override the docstring says was removed
\* (a 30 % base for a row with prior CVD).
mhf_risk_row_cvd_override(r) ==
    Only({ clip(FMul(base, FSub(F(1, 1), reduction)), F(0, 1), F(100, 1)) :
           base \in {IF _to_bool(Get(r, "cvd")) THEN F(30, 1)
                     ELSE framingham_risk_row(r)},
           reduction \in {PyMin(F(3, 10),
                                FMul(F(3, 10),
                                     FDiv(_f(Get(r, "met_min")), F(1000, 1))))} })

mhf_risk_row(r) ==
    Only({ clip(FMul(base, FSub(F(1, 1), reduction)), F(0, 1), F(100, 1)) :
           base \in {framingham_risk_row(r)},
           reduction \in {PyMin(F(3, 10),
                                FMul(F(3, 10),
                                     FDiv(_f(Get(r, "met_min")), F(1000, 1))))} })

-----------------------------------------------------------------------------
(* Rows.                                                                   *)

T_M == <<"M">>
T_m == <<"m">>
T_male == <<"m","a","l","e">>
T_Male == <<"M","a","l","e">>
T_MALE == <<"M","A","L","E">>
T_MAN_padded == <<" ","M","A","N"," ">>
T_Masculine == <<"M","a","s","c","u","l","i","n","e">>
T_males == <<"m","a","l","e","s">>
T_female == <<"f","e","m","a","l","e">>
T_Female == <<"F","e","m","a","l","e">>
T_F == <<"F">>
T_other == <<"o","t","h","e","r">>
T_yes == <<"y","e","s">>
T_no == <<"n","o">>
T_true == <<"t","r","u","e">>
T_false == <<"f","a","l","s","e">>
T_maybe == <<"m","a","y","b","e">>
T_na == <<"n","/","a">>
T_abc == <<"a","b","c">>
T_1200 == <<"1","2","0","0">>
T_250 == <<"2","5","0">>

\* A row with the column schema of generate_profiles / the upload template.
Rows(sexes, ages, tcs, hdls, sbps, meds, smokers, diabs, mets, cvds) ==
    [sex: sexes, age: ages, bmi: {IntV(28)}, cvd: cvds, sbp: sbps,
     on_bp_meds: meds, tc: tcs, hdl: hdls, diabetes: diabs, smoker: smokers,
     met_min: mets]

\* The first row of the module's own test harness.
GoldenRow ==
    [sex |-> StrV(T_M), age |-> IntV(55), bmi |-> IntV(28),
     cvd |-> BoolV(FALSE), sbp |-> IntV(140), on_bp_meds |-> BoolV(FALSE),
     tc |-> NumV(52, 10), hdl |-> NumV(13, 10), diabetes |-> BoolV(FALSE),
     smoker |-> BoolV(TRUE), met_min |-> IntV(0)]

NoCall == [active |-> FALSE, total_pts |-> 0, male |-> FALSE,
           done |-> FALSE, ret |-> NaN]

\* No mortality row is being scored.
MortIdle ==
    /\ mrow = << >>
    /\ mpc = "off"
    /\ lee_points = None
    /\ lee_pct = NaN
    /\ c_score = None
    /\ c_category = << >>

\* No sampler is being called.
SmpIdle == smp = [pc |-> "off"]

\* No frame is being scored, no assembler runs, no debug call is made.
AsmIdle ==
    /\ frame = [pc |-> "off"]
    /\ gen = [pc |-> "off"]
    /\ debug = [pc |-> "off"]

\* A row is loaded and nothing has been scored yet.
InitRows(rows) ==
    /\ row \in rows
    /\ pc = "row"
    /\ points = None
    /\ framingham_risk = NaN
    /\ mhf_risk = NaN
    /\ call = NoCall
    /\ MortIdle
    /\ SmpIdle
    /\ AsmIdle

-----------------------------------------------------------------------------
(* The operations.                                                         *)

\* framingham_points_row_ccs(row)
FraminghamPoints ==
    /\ pc = "row"
    /\ points' = framingham_points_row_ccs(row)
    /\ pc' = "points"
    /\ UNCHANGED <<row, framingham_risk, mhf_risk, call, mortVars, smp, asmVars>>

\* df["framingham_risk"] = compute_framingham(df), for this row
ComputeFramingham ==
    /\ pc = "points"
    /\ framingham_risk' = framingham_risk_from_row(row)
    /\ pc' = "framingham"
    /\ UNCHANGED <<row, points, mhf_risk, call, mortVars, smp, asmVars>>

\* df["mhf_risk"] = compute_mhf(df), for this row
ComputeMhf ==
    /\ pc = "framingham"
    /\ mhf_risk' = mhf_risk_row(row)
    /\ pc' = "mhf"
    /\ UNCHANGED <<row, points, framingham_risk, call, mortVars, smp, asmVars>>

\* _risk_from_points_ccs(total_pts, male), called on its own
RiskFromPoints ==
    /\ call.active /\ ~call.done
    /\ call' = [call EXCEPT !.done = TRUE,
                            !.ret = _risk_from_points_ccs(call.total_pts, call.male)]
    /\ UNCHANGED <<row, pc, points, framingham_risk, mhf_risk, mortVars, smp, asmVars>>

Next == FraminghamPoints \/ ComputeFramingham \/ ComputeMhf

Scored == pc = "mhf"
HasPoints == pc \in {"points", "framingham", "mhf"}
HasRisk == pc \in {"framingham", "mhf"}

-----------------------------------------------------------------------------
(* Spec: rows with missing, unparseable and unrecognised values.           *)

OddFlags == {BoolV(TRUE), BoolV(FALSE), NoneV, NaNV, StrV(T_maybe)}

Init ==
    InitRows(Rows({StrV(T_M), StrV(T_female)},
                  {IntV(55), NoneV, StrV(T_abc)},
                  {NumV(52, 10), NaNV},
                  {NumV(13, 10), StrV(T_na)},
                  {IntV(140), NoneV},
                  OddFlags, OddFlags, OddFlags,
                  {IntV(0)}, {BoolV(FALSE)}))

Spec == Init /\ [][Next]_vars

\* C1: a row in which age, hdl, tc or sbp is missing or is no number gets
\* points None and risk NaN, never a partial sum of the other components.
C1_Unusable == {NoneV, NaNV, StrV(T_na), StrV(T_abc)}
C1_AllOrNothing ==
    (\E k \in {"age", "hdl", "tc", "sbp"} : row[k] \in C1_Unusable)
        => /\ HasPoints => points = None
           /\ HasRisk => isnan(framingham_risk)

\* C1 witness: every field present but age = None, scored to None and NaN.
C1_Witness ==
    /\ pc = "framingham"
    /\ row.age = NoneV
    /\ \A k \in {"hdl", "tc", "sbp"} : row[k].t = "num"
    /\ \A k \in {"on_bp_meds", "smoker", "diabetes"} : row[k].t = "bool"
    /\ points = None
    /\ isnan(framingham_risk)

\* C2: a row whose smoker, diabetes or on_bp_meds value is missing or is an
\* unrecognised text gets an indeterminate score (points None, risk NaN).
C2_UnknownFlag == {NoneV, NaNV, StrV(T_maybe)}
C2_FlagsNeverDefault ==
    (\E k \in {"smoker", "diabetes", "on_bp_meds"} : row[k] \in C2_UnknownFlag)
        => /\ HasPoints => points = None
           /\ HasRisk => isnan(framingham_risk)

-----------------------------------------------------------------------------
(* SpecLookup: _risk_from_points_ccs called with any point total.          *)

MaxPts == 40

InitLookup ==
    /\ row = GoldenRow
    /\ pc = "row"
    /\ points = None
    /\ framingham_risk = NaN
    /\ mhf_risk = NaN
    /\ \E t \in (-MaxPts)..MaxPts, m \in BOOLEAN :
           call = [active |-> TRUE, total_pts |-> t, male |-> m,
                   done |-> FALSE, ret |-> NaN]
    /\ MortIdle
    /\ SmpIdle
    /\ AsmIdle

NextLookup == RiskFromPoints

SpecLookup == InitLookup /\ [][NextLookup]_vars

\* C3: the lookup returns 0.9 for a total of -3 or less, 30.0 from the
\* ceiling on (18 for men, 21 for women), and in between the chart's own
\* entry for that total, which exists and is below 30.0.
C3_Lookup ==
    call.done =>
        LET t == call.total_pts
            chart == IF call.male THEN PTS_TO_RISK_M ELSE PTS_TO_RISK_W
            ceiling == IF call.male THEN 18 ELSE 21
        IN  /\ t <= -3 => call.ret = F(9, 10)
            /\ t >= ceiling => call.ret = F(30, 1)
            /\ (-3 < t /\ t < ceiling)
                   => /\ DictHas(chart, t)
                      /\ call.ret = F(DictAt(chart, t), 10)
                      /\ FLt(call.ret, F(30, 1))

\* C3 witness: an interior total, 7 points for a man, looked up as 5.6 %.
C3_Witness ==
    /\ call.done
    /\ call.male
    /\ call.total_pts = 7
    /\ call.ret = F(56, 10)

-----------------------------------------------------------------------------
(* SpecTC: total cholesterol in mmol/L, in hundredths up to MaxTcCenti.    *)

MaxTcCenti == 2050

InitTC ==
    InitRows(Rows({StrV(T_M), StrV(T_female)}, {IntV(55)},
                  {NumV(h, 100) : h \in 1..MaxTcCenti},
                  {NumV(13, 10)}, {IntV(140)},
                  {BoolV(FALSE)}, {BoolV(TRUE)}, {BoolV(FALSE)},
                  {IntV(0)}, {BoolV(FALSE)}))

SpecTC == InitTC /\ [][Next]_vars

\* The same row with its total cholesterol multiplied by 38.67.
C4_InMgdl(r) == [r EXCEPT !.tc = NumV(r.tc.n * 3867, r.tc.d * 100)]
C4_SamePoints(r) ==
    /\ FraminghamComponents(r)[3] = FraminghamComponents(C4_InMgdl(r))[3]
    /\ points = framingham_points_from_row(C4_InMgdl(r))

\* C4 as stated: for every tc = v mmol/L with 0 < v <= 20, the row and the
\* row with tc = v x 38.67 get the same TC points and the same total.
C4_UnitRobustAll ==
    (HasPoints /\ row.tc.n > 0 /\ row.tc.n <= 20 * row.tc.d)
        => C4_SamePoints(row)

\* C4 as amended: the same, for the values v <= 20 whose mg/dL equivalent
\* v x 38.67 is above 20.
C4_UnitRobust ==
    (HasPoints /\ row.tc.n <= 20 * row.tc.d
               /\ row.tc.n * 3867 > 20 * row.tc.d * 100)
        => C4_SamePoints(row)

\* C4 witness: tc = 5.5 scored, and 5.5 x 38.67 = 212.685 gets its 2 points.
C4_Witness ==
    /\ pc = "points"
    /\ row.sex = StrV(T_M)
    /\ row.tc = NumV(550, 100)
    /\ FraminghamComponents(row)[3] = Some(2)
    /\ FraminghamComponents(C4_InMgdl(row))[3] = Some(2)
    /\ points = framingham_points_from_row(C4_InMgdl(row))

-----------------------------------------------------------------------------
(* SpecSbp: systolic BP at and around every band edge, in the four tables. *)

SbpEdges == {0, 119, 120, 129, 130, 139, 140, 149, 150, 159, 160, 9999, 10000}

InitSbp ==
    InitRows(Rows({StrV(T_M), StrV(T_female)}, {IntV(55)},
                  {NumV(52, 10)}, {NumV(13, 10)},
                  {IntV(e) : e \in SbpEdges} \cup {NumV(2 * e + 1, 2) : e \in SbpEdges},
                  {BoolV(FALSE), BoolV(TRUE)}, {BoolV(TRUE)}, {BoolV(FALSE)},
                  {IntV(0)}, {BoolV(FALSE)}))

SpecSbp == InitSbp /\ [][Next]_vars

\* C10: for every non-negative numeric systolic BP and each of the four
\* tables exactly one band matches, and the SBP points are determinate.
C10_BandCoverage ==
    (HasPoints /\ row.sbp.t = "num" /\ row.sbp.n >= 0)
        => LET bands == SBP_BANDS(row.on_bp_meds = BoolV(TRUE),
                                  row.sex = StrV(T_M))
               s_ == PyRound(F(row.sbp.n, row.sbp.d))
           IN  /\ Cardinality({i \in 1..Len(bands) :
                                 bands[i][1] <= s_ /\ s_ <= bands[i][2]}) = 1
               /\ FraminghamComponents(row)[4].some
               /\ points.some

-----------------------------------------------------------------------------
(* SpecTables: determinate rows, every spelling of sex.                    *)

SexValues ==
    {StrV(T_M), StrV(T_m), StrV(T_male), StrV(T_MAN_padded), StrV(T_Masculine),
     StrV(T_males), StrV(T_female), StrV(T_F), StrV(T_other), StrV(<<>>),
     NoneV, NaNV, IntV(1)}

InitTables ==
    InitRows(Rows(SexValues,
                  {IntV(55), IntV(60), IntV(50), IntV(38)},
                  {NumV(52, 10), NumV(63, 10), IntV(200)},
                  {NumV(13, 10), NumV(10, 10), IntV(50)},
                  {IntV(140), IntV(150), IntV(130)},
                  {BoolV(FALSE), BoolV(TRUE)}, {BoolV(FALSE), BoolV(TRUE)},
                  {BoolV(FALSE), BoolV(TRUE)},
                  {IntV(0)}, {BoolV(FALSE)}))

SpecTables == InitTables /\ [][Next]_vars

\* The sex values of SexValues that, trimmed and lower-cased, are one of
\* m, male, man, masculine.
C9_MaleSpellings ==
    {StrV(T_M), StrV(T_m), StrV(T_male), StrV(T_MAN_padded), StrV(T_Masculine)}

\* C5: with six determinate components the total is their sum, smoking
\* counting 4 (male) / 3 (female) and diabetes 3 (male) / 4 (female) when
\* true and 0 otherwise; the golden row scores 10 - 1 + 2 + 2 + 4 + 0 = 17
\* points and 29.4 percent.
C5_PointSum ==
    LET comps == FraminghamComponents(row)
        male == row.sex \in C9_MaleSpellings
        smoking == IF row.smoker = BoolV(TRUE)
                   THEN (IF male THEN 4 ELSE 3) ELSE 0
        diabetes == IF row.diabetes = BoolV(TRUE)
                    THEN (IF male THEN 3 ELSE 4) ELSE 0
    IN  /\ (HasPoints /\ \A i \in 1..6 : comps[i].some)
               => /\ points.some
                  /\ points.v = comps[1].v + comps[2].v + comps[3].v
                                + comps[4].v + smoking + diabetes
        /\ (HasPoints /\ row = GoldenRow)
               => /\ comps = <<Some(10), Some(-1), Some(2), Some(2),
                               Some(4), Some(0)>>
                  /\ points = Some(17)
        /\ (HasRisk /\ row = GoldenRow) => framingham_risk = F(294, 10)

\* C5 witness: the golden row scored to 17 points and 29.4 percent.
C5_Witness ==
    /\ pc = "framingham"
    /\ row = GoldenRow
    /\ points = Some(17)
    /\ framingham_risk = F(294, 10)

\* The components computed with the given sex.
C9_ComponentsAs(r, male) ==
    << _age_points_ccs(r.age, male),
       _hdl_points_ccs(MmolOf(_to_float(r.hdl))),
       _tc_points_ccs(MmolOf(_to_float(r.tc)), male),
       _sbp_points_ccs(r.sbp, _to_bool(r.on_bp_meds), male),
       _smoker_points_ccs(male, r.smoker),
       _diabetes_points_ccs(male, r.diabetes) >>

\* C9: a row is scored with the male tables exactly when its sex, trimmed
\* and lower-cased, is m, male, man or masculine, and with the female
\* tables otherwise, in every component and in the percentage lookup; sex
\* never makes the score indeterminate.
C9_SexClassification ==
    LET male == row.sex \in C9_MaleSpellings
        comps == C9_ComponentsAs(row, male)
    IN  /\ HasPoints
               => /\ FraminghamComponents(row) = comps
                  /\ points = Some(comps[1].v + comps[2].v + comps[3].v
                                   + comps[4].v + comps[5].v + comps[6].v)
        /\ HasRisk => framingham_risk = _risk_from_points_ccs(points.v, male)

\* C9 witness: sex "Masculine", 55, scored with the men's tables (10 age
\* points where the women's table gives 8).
C9_Witness ==
    /\ pc = "framingham"
    /\ row.sex = StrV(T_Masculine)
    /\ row.age = IntV(55)
    /\ FraminghamComponents(row)[1] = Some(10)
    /\ _age_points_ccs(row.age, FALSE) = Some(8)
    /\ points.some
    /\ framingham_risk = _risk_from_points_ccs(points.v, TRUE)

-----------------------------------------------------------------------------
(* SpecMet: weekly MET-minutes around the cap, and every spelling of cvd.  *)

MetValues ==
    {IntV(0), IntV(1), IntV(250), IntV(500), IntV(999), NumV(9999, 10),
     IntV(1000), NumV(10001, 10), IntV(1200), IntV(5000), IntV(-500),
     IntV(-30000), NoneV, NaNV, StrV(T_1200), StrV(T_abc)}

CvdValues ==
    {BoolV(TRUE), BoolV(FALSE), IntV(1), IntV(0), StrV(T_yes), NoneV}

InitMet ==
    InitRows(Rows({StrV(T_M), StrV(T_female)}, {IntV(55), IntV(40), NoneV},
                  {NumV(52, 10)}, {NumV(13, 10)}, {IntV(140)},
                  {BoolV(FALSE)}, {BoolV(FALSE), BoolV(TRUE)}, {BoolV(FALSE)},
                  MetValues, CvdValues))

SpecMet == InitMet /\ [][Next]_vars

\* The claim's formula on exact numbers: base x (1 - min(0.3, 0.3 x m / 1000))
\* clamped to [0, 100].
C6_Adjusted(base, m) ==
    LET raw == FMul(F(3, 10), FDiv(m, F(1000, 1)))
        discount == IF FLt(raw, F(3, 10)) THEN raw ELSE F(3, 10)
        adjusted == FMul(base, FSub(F(1, 1), discount))
    IN  IF FLt(adjusted, F(0, 1)) THEN F(0, 1)
        ELSE IF FLt(F(100, 1), adjusted) THEN F(100, 1)
        ELSE adjusted

\* C6: for every row with a determinate Framingham percentage and a numeric
\* met_min, mhf_risk_row returns framingham% x (1 - min(0.3, 0.3 x
\* met_min / 1000)) clamped to [0, 100]; met_min = 0 gives the Framingham
\* percentage itself and every met_min >= 1000 gives 0.7 x the Framingham
\* percentage.
C6_MhfAdjustment ==
    (Scored /\ ~isnan(framingham_risk) /\ row.met_min.t = "num")
        => LET m == F(row.met_min.n, row.met_min.d)
           IN  /\ mhf_risk = C6_Adjusted(framingham_risk, m)
               /\ (m = F(0, 1)) => mhf_risk = framingham_risk
               /\ FLe(F(1000, 1), m)
                      => mhf_risk = FMul(F(7, 10), framingham_risk)

\* C6 witness: the golden row with 5000 MET-minutes: 29.4 -> 20.58.
C6_Witness ==
    /\ Scored
    /\ row.sex = StrV(T_M) /\ row.age = IntV(55) /\ row.smoker = BoolV(TRUE)
    /\ row.met_min = IntV(5000)
    /\ framingham_risk = F(294, 10)
    /\ mhf_risk = F(2058, 100)

C27_OnlyDiscount ==
    (Scored /\ ~isnan(framingham_risk))
        => /\ ~isnan(mhf_risk)
           /\ FLe(mhf_risk, framingham_risk)
           /\ FLe(FMul(F(7, 10), framingham_risk), mhf_risk)


-----------------------------------------------------------------------------
(* SpecFormat: the rows of test_risk.py in every accepted spelling.        *)
BoolSpellings ==
    {BoolV(TRUE), BoolV(FALSE), IntV(1), IntV(0),
     StrV(T_yes), StrV(T_no), StrV(T_true), StrV(T_false)}

InitFormat ==
    InitRows(Rows({StrV(T_male), StrV(T_Male), StrV(T_MALE), StrV(T_M),
                   StrV(T_m), StrV(T_female), StrV(T_Female)},
                  {IntV(55)}, {NumV(55, 10)}, {NumV(11, 10)}, {IntV(140)},
                  BoolSpellings, BoolSpellings,
                  {BoolV(TRUE), BoolV(FALSE), IntV(1), StrV(T_no)},
                  {IntV(1200), StrV(T_1200), IntV(250), StrV(T_250)},
                  {BoolV(FALSE)}))

SpecFormat == InitFormat /\ [][Next]_vars

\* The Boolean a spelling stands for.
C8_BoolOf(x) ==
    IF x \in {BoolV(TRUE), IntV(1), StrV(T_yes), StrV(T_true)}
    THEN BoolV(TRUE) ELSE BoolV(FALSE)

\* The token a sex spelling is a letter-case variant of.
C8_SexOf(x) ==
    CASE x \in {StrV(T_male), StrV(T_Male), StrV(T_MALE)} -> StrV(T_male)
      [] x \in {StrV(T_M), StrV(T_m)} -> StrV(T_m)
      [] OTHER -> StrV(T_female)

\* The number a met_min spelling stands for.
C8_MetOf(x) ==
    CASE x = StrV(T_1200) -> IntV(1200)
      [] x = StrV(T_250) -> IntV(250)
      [] OTHER -> x

\* The row in Python Booleans, lower-case sex and numeric met_min.
C8_Original(r) ==
    [r EXCEPT !.on_bp_meds = C8_BoolOf(r.on_bp_meds),
              !.smoker = C8_BoolOf(r.smoker),
              !.diabetes = C8_BoolOf(r.diabetes),
              !.sex = C8_SexOf(r.sex),
              !.met_min = C8_MetOf(r.met_min)]

\* C8: a row written with any accepted spelling of its Booleans, any
\* letter case of its sex and met_min as a numeric string gets the same
\* Framingham points, Framingham percentage and MHF risk as the original
\* row; the two rows of test_risk.py both score 21 points, 30.0 and 21.0.
C8_FormatLenience ==
    /\ HasPoints => points = framingham_points_row_ccs(C8_Original(row))
    /\ HasRisk => framingham_risk = framingham_risk_row(C8_Original(row))
    /\ Scored => mhf_risk = mhf_risk_row(C8_Original(row))
    /\ (Scored /\ C8_Original(row)
            = [GoldenRow EXCEPT !.sex = StrV(T_male), !.tc = NumV(55, 10),
                                !.hdl = NumV(11, 10),
                                !.on_bp_meds = BoolV(TRUE),
                                !.met_min = IntV(1200)])
           => points = Some(21) /\ framingham_risk = F(30, 1)
              /\ mhf_risk = F(21, 1)

\* C8 witness: the second row of test_risk.py ("Male", "yes", "yes", "no",
\* "1200") scored to 21 points, 30.0 and 21.0.
C8_Witness ==
    /\ Scored
    /\ row.sex = StrV(T_Male)
    /\ row.on_bp_meds = StrV(T_yes)
    /\ row.smoker = StrV(T_yes)
    /\ row.diabetes = StrV(T_no)
    /\ row.met_min = StrV(T_1200)
    /\ points = Some(21)
    /\ framingham_risk = F(30, 1)
    /\ mhf_risk = F(21, 1)

-----------------------------------------------------------------------------
(* SpecAge: ages in tenths of a year, from below zero to above the chart.  *)

MaxAgeTenths == 800

InitAge ==
    InitRows(Rows({StrV(T_M), StrV(T_female)},
                  {NumV(k, 10) : k \in -20..MaxAgeTenths},
                  {NumV(52, 10)}, {NumV(13, 10)}, {IntV(140)},
                  {BoolV(FALSE)}, {BoolV(TRUE)}, {BoolV(FALSE)},
                  {IntV(0)}, {BoolV(FALSE)}))

SpecAge == InitAge /\ [][Next]_vars

\* The points of the band of highest lower bound not exceeding the age a,
\* among the chart's bands (30 and above).
C11_BandOf(a, male) ==
    LET table == IF male THEN AGE_THRESH_M ELSE AGE_THRESH_W
        hit == {i \in 1..Len(table) :
                  table[i][1] >= 30 /\ FLe(F(table[i][1], 1), a)}
    IN  table[SetMax(hit)][2]

\* C11 as stated: every numeric age below the lowest threshold gets the
\* lowest bucket's 0 points and is never indeterminate; any other age
\* gets the band of highest lower bound not exceeding the age.
C11_AgeBandsAll ==
    (HasPoints /\ row.age.t = "num")
        => LET a == F(row.age.n, row.age.d)
               got == FraminghamComponents(row)[1]
           IN  IF FLt(a, F(30, 1)) THEN got = Some(0)
               ELSE got = Some(C11_BandOf(a, row.sex = StrV(T_M)))

\* C11 amended: a negative age is indeterminate; every age from 0 up to
\* the lowest chart threshold (30) gets 0 points; any other age gets the
\* band of highest lower bound not exceeding the age rounded to the
\* nearest integer (ties to even).
C11_AgeBands ==
    (HasPoints /\ row.age.t = "num")
        => LET a == F(row.age.n, row.age.d)
               got == FraminghamComponents(row)[1]
           IN  /\ FLt(a, F(0, 1)) => got = None /\ points = None
               /\ (FLe(F(0, 1), a) /\ FLt(a, F(30, 1))) => got = Some(0)
               /\ FLe(F(30, 1), a)
                      => got = Some(C11_BandOf(F(PyRound(a), 1),
                                               row.sex = StrV(T_M)))
               /\ FLe(F(0, 1), a) => points.some

\* C11 witness: age 25, below the chart, scored with 0 age points.
C11_Witness ==
    /\ pc = "points"
    /\ row.age = NumV(250, 10)
    /\ row.sex = StrV(T_M)
    /\ FraminghamComponents(row)[1] = Some(0)
    /\ points.some

-----------------------------------------------------------------------------
(* src/mhf/mortality.py.  Its _to_float, _to_bool and _is_male (lines 7-29) *)
(* are the same text as those of risk_engine.py and are the operators      *)
(* above.                                                                  *)

\* A column the row does not have: row.get(key) gives None, and
\* row.get(key, default) gives the default.
AbsentV == [t |-> "absent", n |-> 0, d |-> 1, s |-> <<>>]
MGet(r, key) == IF r[key].t = "absent" THEN NoneV ELSE r[key]

\* sub in s
Contains(s0, sub0) ==
    \E s \in {s0}, sub \in {sub0} :
        \E i \in 0..(Len(s) - Len(sub)) : SubSeq(s, i + 1, i + Len(sub)) = sub

\* s.startswith(prefix)
StartsWith(s0, prefix) ==
    \E s \in {s0} :
        Len(s) >= Len(prefix) /\ SubSeq(s, 1, Len(prefix)) = prefix

\* The text literals of mortality.py.
Tok ==
    [never |-> <<"n","e","v","e","r">>, former_gt1 |-> <<"f","o","r","m","e","r","_","g","t","1">>,
     former_lt1 |-> <<"f","o","r","m","e","r","_","l","t","1">>, current_le10 |-> <<"c","u","r","r","e","n","t","_","l","e","1","0">>,
     current_gt10 |-> <<"c","u","r","r","e","n","t","_","g","t","1","0">>, former |-> <<"f","o","r","m","e","r">>,
     current |-> <<"c","u","r","r","e","n","t">>, gt |-> <<"g","t">>, lt |-> <<"l","t">>, le |-> <<"l","e">>,
     over |-> <<"o","v","e","r">>, under |-> <<"u","n","d","e","r">>, less |-> <<"l","e","s","s">>, more |-> <<"m","o","r","e">>,
     ten |-> <<"1","0">>, oneplus |-> <<"1","+">>, excellent |-> <<"e","x","c","e","l","l","e","n","t">>,
     very_good_sp |-> <<"v","e","r","y"," ","g","o","o","d">>, very_good |-> <<"v","e","r","y","_","g","o","o","d">>,
     good |-> <<"g","o","o","d">>, fair |-> <<"f","a","i","r">>, poor |-> <<"p","o","o","r">>,
     unknown |-> <<"u","n","k","n","o","w","n">>, Excellent_low_risk |-> <<"E","x","c","e","l","l","e","n","t",","," ","l","o","w"," ","r","i","s","k">>,
     Good |-> <<"G","o","o","d">>, Needs_improvement |-> <<"N","e","e","d","s"," ","i","m","p","r","o","v","e","m","e","n","t">>,
     Elevated_risk |-> <<"E","l","e","v","a","t","e","d"," ","r","i","s","k">>]

\* The fallbacks of _smoking_status on a label that is not one of the five
\* tokens.
SmokingFallback(raw0, smoker) ==
    Only({
      CASE Contains(raw, Tok.never) -> Tok.never
        [] Contains(raw, Tok.former)
             /\ (Contains(raw, <<">">>) \/ Contains(raw, Tok.gt)
                 \/ Contains(raw, Tok.oneplus) \/ Contains(raw, Tok.over))
           -> Tok.former_gt1
        [] Contains(raw, Tok.former)
             /\ (Contains(raw, <<"<">>) \/ Contains(raw, Tok.lt)
                 \/ Contains(raw, Tok.under))
           -> Tok.former_lt1
        [] Contains(raw, Tok.current)
           -> IF Contains(raw, Tok.ten)
                 /\ (Contains(raw, <<"<","=">>) \/ Contains(raw, <<"<","=","1","0">>)
                     \/ Contains(raw, Tok.le) \/ Contains(raw, Tok.less))
              THEN Tok.current_le10
              ELSE Tok.current_gt10
        [] OTHER -> IF _to_bool(smoker) THEN Tok.current_gt10 ELSE Tok.never :
      raw \in {raw0} })

_smoking_status(r0) ==
    Only({ IF raw \in {Tok.never, Tok.former_gt1, Tok.former_lt1,
                       Tok.current_le10, Tok.current_gt10}
           THEN raw
           ELSE SmokingFallback(raw, MGet(r0, "smoker")) :
           raw \in {lower(strip(PyStr(IF r0.smoking_status.t = "absent"
                                      THEN StrV(<<>>)
                                      ELSE r0.smoking_status)))} })

(* Lee score.                                                              *)

_LEE_AGE_BANDS == << <<60, 64, 1>>, <<65, 69, 2>>, <<70, 74, 3>>,
                     <<75, 79, 4>>, <<80, 84, 5>>, <<85, 200, 7>> >>

_LEE_CONDITION_POINTS == << <<"diabetes", 1>>, <<"non_skin_cancer", 2>>,
                            <<"copd", 2>>, <<"heart_failure", 2>> >>

_LEE_FUNCTION_POINTS == << <<"difficulty_bathing", 2>>,
                           <<"difficulty_managing_money", 2>>,
                           <<"difficulty_walking", 2>> >>

\* Mutant of _LEE_PTS_TO_MORTALITY: the band (5, 6) is missing.
_LEE_PTS_TO_MORTALITY_gap ==
    << <<0, 4, F(4, 1)>>, <<7, 8, F(10, 1)>>,
       <<9, 10, F(15, 1)>>, <<11, 12, F(22, 1)>>, <<13, 14, F(32, 1)>>,
       <<15, 16, F(45, 1)>>, <<17, 1000, F(64, 1)>> >>

_LEE_PTS_TO_MORTALITY ==
    << <<0, 4, F(4, 1)>>, <<5, 6, F(6, 1)>>, <<7, 8, F(10, 1)>>,
       <<9, 10, F(15, 1)>>, <<11, 12, F(22, 1)>>, <<13, 14, F(32, 1)>>,
       <<15, 16, F(45, 1)>>, <<17, 1000, F(64, 1)>> >>

\* pts += p for the field r[entry[1]] when it is true
FlagPts(r, entry) == IF _to_bool(MGet(r, entry[1])) THEN entry[2] ELSE 0

\* The body of lee_points_from_row after the age tests: pts after each of
\* its statements, for the age already converted.
LeeSum(r0, age0) ==
    Only({ (IF hit = {} THEN 0 ELSE _LEE_AGE_BANDS[SetMin(hit)][3])
           + (IF _is_male(MGet(r, "sex")) THEN 2 ELSE 0)
           + (IF StartsWith(_smoking_status(r), Tok.current) THEN 2 ELSE 0)
           + FlagPts(r, _LEE_CONDITION_POINTS[1])
           + FlagPts(r, _LEE_CONDITION_POINTS[2])
           + FlagPts(r, _LEE_CONDITION_POINTS[3])
           + FlagPts(r, _LEE_CONDITION_POINTS[4])
           + FlagPts(r, _LEE_FUNCTION_POINTS[1])
           + FlagPts(r, _LEE_FUNCTION_POINTS[2])
           + FlagPts(r, _LEE_FUNCTION_POINTS[3])
           + (IF ~isnan(bmi) /\ FLt(bmi, F(25, 1)) THEN 1 ELSE 0) :
           r \in {r0},
           hit \in {{i \in 1..Len(_LEE_AGE_BANDS) :
                       \E age_int \in {PyRound(age0)} :
                           /\ _LEE_AGE_BANDS[i][1] <= age_int
                           /\ age_int <= _LEE_AGE_BANDS[i][2]}},
           bmi \in {_to_float(MGet(r0, "bmi"))} })

\* Mutant of lee_points_from_row: without the age floor of 50.
lee_points_nofloor(r0) ==
    Only({ IF isnan(age) THEN None ELSE Some(LeeSum(r0, age)) :
           age \in {_to_float(MGet(r0, "age"))} })

lee_points_from_row(r0) ==
    Only({ IF isnan(age) THEN None
           ELSE IF FLt(age, F(50, 1)) THEN None
           ELSE Some(LeeSum(r0, age)) :
           age \in {_to_float(MGet(r0, "age"))} })

lee_mortality_pct(points0) ==
    Only({ IF ~pts.some THEN NaN
           ELSE IF hit = {} THEN NaN
           ELSE _LEE_PTS_TO_MORTALITY[SetMin(hit)][3] :
           pts \in {points0},
           hit \in {{i \in 1..Len(_LEE_PTS_TO_MORTALITY) :
                       /\ _LEE_PTS_TO_MORTALITY[i][1] <= points0.v
                       /\ points0.v <= _LEE_PTS_TO_MORTALITY[i][2]}} })

(* C-score.                                                                *)

_SRH_POINTS == << <<Tok.excellent, 25>>, <<Tok.very_good_sp, 22>>,
                  <<Tok.very_good, 22>>, <<Tok.good, 17>>, <<Tok.fair, 8>>,
                  <<Tok.poor, 0>> >>

_SMOKING_POINTS == << <<Tok.never, 15>>, <<Tok.former_gt1, 10>>,
                      <<Tok.former_lt1, 5>>, <<Tok.current_le10, 3>>,
                      <<Tok.current_gt10, 0>> >>

\* dict.get(key, None)
DictGetOpt(dict, key) ==
    IF DictHas(dict, key) THEN Some(DictAt(dict, key)) ELSE None

_srh_points(val0) ==
    Only({ IF val.t = "none" THEN None
           ELSE DictGetOpt(_SRH_POINTS, lower(strip(PyStr(val)))) :
           val \in {val0} })

\* lo <= v <= hi
Between(lo, v, hi) == FLe(lo, v) /\ FLe(v, hi)

_whtr_points(whtr) ==
    Only({ IF isnan(v) THEN None
           ELSE IF FLt(v, F(50, 100)) THEN Some(20)
           ELSE IF Between(F(50, 100), v, F(54, 100)) THEN Some(14)
           ELSE IF Between(F(55, 100), v, F(59, 100)) THEN Some(6)
           ELSE Some(0) :
           v \in {_to_float(whtr)} })

_rhr_points(rhr) ==
    Only({ IF isnan(v) THEN None
           ELSE IF Between(F(50, 1), v, F(65, 1)) THEN Some(20)
           ELSE IF Between(F(66, 1), v, F(75, 1)) THEN Some(14)
           ELSE IF Between(F(76, 1), v, F(85, 1)) THEN Some(7)
           ELSE Some(0) :
           v \in {_to_float(rhr)} })

_smoking_points(status) == DictGetOpt(_SMOKING_POINTS, status)

_alcohol_points(drinks_per_week) ==
    Only({ IF isnan(v) THEN None
           ELSE IF Between(F(0, 1), v, F(7, 1)) THEN Some(10)
           ELSE IF Between(F(8, 1), v, F(14, 1)) THEN Some(7)
           ELSE IF Between(F(15, 1), v, F(21, 1)) THEN Some(3)
           ELSE Some(0) :
           v \in {_to_float(drinks_per_week)} })
\* Mutant of _sleep_points: the hours above 8 are scored one band lower
\* than the hours below 7.
_sleep_points_asym(hours) ==
    Only({ IF isnan(v) THEN None
           ELSE IF Between(F(7, 1), v, F(8, 1)) THEN Some(10)
           ELSE IF v = F(6, 1) THEN Some(7)
           ELSE IF v \in {F(5, 1), F(9, 1)} THEN Some(3)
           ELSE IF FLt(v, F(5, 1)) \/ FLe(F(10, 1), v) THEN Some(0)
           ELSE IF FLt(F(6, 1), v) /\ FLt(v, F(7, 1)) THEN Some(7)
           ELSE IF FLt(F(8, 1), v) /\ FLt(v, F(9, 1)) THEN Some(3)
           ELSE IF FLt(F(5, 1), v) /\ FLt(v, F(6, 1)) THEN Some(3)
           ELSE Some(0) :
           v \in {_to_float(hours)} })

_sleep_points(hours) ==
    Only({ IF isnan(v) THEN None
           ELSE IF Between(F(7, 1), v, F(8, 1)) THEN Some(10)
           ELSE IF v \in {F(6, 1), F(9, 1)} THEN Some(7)
           ELSE IF v \in {F(5, 1), F(10, 1)} THEN Some(3)
           ELSE IF FLt(v, F(5, 1)) \/ FLt(F(10, 1), v) THEN Some(0)
           ELSE IF FLt(F(6, 1), v) /\ FLt(v, F(7, 1)) THEN Some(7)
           ELSE IF FLt(F(8, 1), v) /\ FLt(v, F(9, 1)) THEN Some(7)
           ELSE IF FLt(F(5, 1), v) /\ FLt(v, F(6, 1)) THEN Some(3)
           ELSE IF FLt(F(9, 1), v) /\ FLt(v, F(10, 1)) THEN Some(3)
           ELSE Some(0) :
           v \in {_to_float(hours)} })
\* The last statement of _sleep_points, 'return 0' after the interpolation
\* rules, is reached: no return before it was taken.
_sleep_points_falls_through(hours) ==
    \E v \in {_to_float(hours)} :
        /\ ~isnan(v)
        /\ ~Between(F(7, 1), v, F(8, 1))
        /\ v \notin {F(6, 1), F(9, 1)}
        /\ v \notin {F(5, 1), F(10, 1)}
        /\ ~(FLt(v, F(5, 1)) \/ FLt(F(10, 1), v))
        /\ ~(FLt(F(6, 1), v) /\ FLt(v, F(7, 1)))
        /\ ~(FLt(F(8, 1), v) /\ FLt(v, F(9, 1)))
        /\ ~(FLt(F(5, 1), v) /\ FLt(v, F(6, 1)))
        /\ ~(FLt(F(9, 1), v) /\ FLt(v, F(10, 1)))

\* comps of c_score_from_row, in the order summed.
CScoreComponents(r0) ==
    Only({ << _srh_points(MGet(r, "self_rated_health")),
              _whtr_points(MGet(r, "whtr")),
              _rhr_points(MGet(r, "resting_hr")),
              _smoking_points(_smoking_status(r)),
              _alcohol_points(MGet(r, "drinks_per_week")),
              _sleep_points(MGet(r, "sleep_hours")) >> :
           r \in {r0} })

c_score_from_row(r) ==
    Only({ IF \E i \in 1..Len(comps) : ~comps[i].some THEN None
           ELSE Some(comps[1].v + comps[2].v + comps[3].v + comps[4].v
                     + comps[5].v + comps[6].v) :
           comps \in {CScoreComponents(r)} })

\* Mutant of c_score_category: a None score is not told apart from a low
\* score.
c_score_category_conflated(score0) ==
    Only({ IF score.some /\ 90 <= score.v /\ score.v <= 100
           THEN Tok.Excellent_low_risk
           ELSE IF score.some /\ 75 <= score.v /\ score.v <= 89 THEN Tok.Good
           ELSE IF score.some /\ 60 <= score.v /\ score.v <= 74
           THEN Tok.Needs_improvement
           ELSE IF ~score.some \/ score.v < 60 THEN Tok.Elevated_risk
           ELSE Tok.unknown :
           score \in {score0} })

c_score_category(score0) ==
    Only({ IF ~score.some THEN Tok.unknown
           ELSE IF 90 <= score.v /\ score.v <= 100 THEN Tok.Excellent_low_risk
           ELSE IF 75 <= score.v /\ score.v <= 89 THEN Tok.Good
           ELSE IF 60 <= score.v /\ score.v <= 74 THEN Tok.Needs_improvement
           ELSE IF score.v < 60 THEN Tok.Elevated_risk
           ELSE Tok.unknown :
           score \in {score0} })

(* The mortality pipeline of app.py, on one row.                           *)

\* A complete row of generate_mortality_profiles: 70, female, never
\* smoked, no condition, BMI 27, and the best bucket of every C-score input.
MortRow ==
    [age |-> IntV(70), sex |-> StrV(T_female), bmi |-> IntV(27),
     smoking_status |-> StrV(Tok.never), smoker |-> AbsentV,
     diabetes |-> BoolV(FALSE), non_skin_cancer |-> BoolV(FALSE),
     copd |-> BoolV(FALSE), heart_failure |-> BoolV(FALSE),
     difficulty_bathing |-> BoolV(FALSE),
     difficulty_managing_money |-> BoolV(FALSE),
     difficulty_walking |-> BoolV(FALSE),
     self_rated_health |-> StrV(Tok.excellent), whtr |-> NumV(45, 100),
     resting_hr |-> IntV(60), drinks_per_week |-> IntV(2),
     sleep_hours |-> NumV(75, 10)]

\* A mortality row is loaded, nothing is scored yet, no CVD row is loaded.
InitMortRows(rows) ==
    /\ mrow \in rows
    /\ mpc = "row"
    /\ lee_points = None
    /\ lee_pct = NaN
    /\ c_score = None
    /\ c_category = << >>
    /\ row = GoldenRow
    /\ pc = "off"
    /\ points = None
    /\ framingham_risk = NaN
    /\ mhf_risk = NaN
    /\ call = NoCall
    /\ SmpIdle
    /\ AsmIdle

\* lee_pts, lee_pct = compute_lee(df), for this row
ComputeLee ==
    /\ mpc = "row"
    /\ \E pts \in {lee_points_from_row(mrow)} :
           /\ lee_points' = pts
           /\ lee_pct' = lee_mortality_pct(pts)
    /\ mpc' = "lee"
    /\ UNCHANGED <<row, pc, points, framingham_risk, mhf_risk, call,
                   mrow, c_score, c_category, smp, asmVars>>

\* df["c_score"] = compute_c_score(df), for this row
ComputeCScore ==
    /\ mpc = "lee"
    /\ c_score' = c_score_from_row(mrow)
    /\ mpc' = "c_score"
    /\ UNCHANGED <<row, pc, points, framingham_risk, mhf_risk, call,
                   mrow, lee_points, lee_pct, c_category, smp, asmVars>>

\* df["c_score_category"] = df["c_score"].apply(c_score_category)
ApplyCategory ==
    /\ mpc = "c_score"
    /\ c_category' = c_score_category(c_score)
    /\ mpc' = "category"
    /\ UNCHANGED <<row, pc, points, framingham_risk, mhf_risk, call,
                   mrow, lee_points, lee_pct, c_score, smp, asmVars>>

NextMort == ComputeLee \/ ComputeCScore \/ ApplyCategory

HasLee == mpc \in {"lee", "c_score", "category"}
HasCScore == mpc \in {"c_score", "category"}

-----------------------------------------------------------------------------
(* SpecLee: ages around the floor of 50 and every age band, with every     *)
(* combination of the point-bearing fields, and rows with missing fields.  *)

LeeAges ==
    {NoneV, NaNV, StrV(T_abc), IntV(45), NumV(499, 10), IntV(50), IntV(59),
     NumV(596, 10), IntV(60), IntV(65), IntV(70), IntV(75), IntV(80),
     IntV(84), IntV(85), IntV(200), IntV(201)}

LeeRows ==
    { [MortRow EXCEPT !.age = a, !.sex = s, !.smoking_status = st,
                      !.bmi = b, !.diabetes = BoolV(f[1]),
                      !.non_skin_cancer = BoolV(f[2]), !.copd = BoolV(f[3]),
                      !.heart_failure = BoolV(f[4]),
                      !.difficulty_bathing = BoolV(f[5]),
                      !.difficulty_managing_money = BoolV(f[6]),
                      !.difficulty_walking = BoolV(f[7])] :
      a \in LeeAges, s \in {StrV(T_male), StrV(T_female)},
      st \in {StrV(Tok.never), StrV(Tok.current_le10), StrV(Tok.current_gt10)},
      b \in {NumV(249, 10), IntV(25)},
      f \in [1..7 -> BOOLEAN] }
    \cup
    { [MortRow EXCEPT !.age = a, !.sex = NoneV, !.bmi = NoneV,
                      !.smoking_status = AbsentV, !.smoker = sm,
                      !.diabetes = x, !.difficulty_walking = x,
                      !.self_rated_health = NoneV] :
      a \in LeeAges, sm \in {AbsentV, BoolV(TRUE), BoolV(FALSE)},
      x \in OddFlags }

InitLee == InitMortRows(LeeRows)

SpecLee == InitLee /\ [][NextMort]_vars

\* C12: lee_points_from_row returns None exactly when age is missing,
\* unparseable or below 50, and an integer for every age of 50 or more,
\* whatever the other fields are.
C12_AgeFloor ==
    HasLee
        => LET noAge == \/ mrow.age \in {NoneV, NaNV, StrV(T_abc)}
                        \/ /\ mrow.age.t = "num"
                           /\ mrow.age.n < 50 * mrow.age.d
           IN  /\ noAge <=> (lee_points = None)
               /\ ~noAge => lee_points.some /\ lee_points.v \in 0..25

\* C12 witness: a row of age 50 with missing sex, BMI and smoking status
\* still gets a Lee total.
C12_Witness ==
    /\ mpc = "lee"
    /\ mrow.age = IntV(50)
    /\ mrow.sex = NoneV /\ mrow.bmi = NoneV
    /\ mrow.smoking_status = AbsentV
    /\ lee_points.some

\* The age-band points of C13 for an age in whole years.
C13_AgePoints(y) ==
    IF y <= 59 THEN 0
    ELSE IF y <= 64 THEN 1
    ELSE IF y <= 69 THEN 2
    ELSE IF y <= 74 THEN 3
    ELSE IF y <= 79 THEN 4
    ELSE IF y <= 84 THEN 5
    ELSE 7

\* C13: for every row with age >= 50 (a smoking category and Boolean flags
\* given), the Lee total is the age-band points (0 for 50-59, 1..5 for the
\* five-year bands from 60 to 84, 7 for every age >= 85, the age taken to
\* the nearest year) + 2 if male + 2 if the smoking category is either
\* current intensity + 1 for diabetes + 2 each for cancer, COPD and heart
\* failure + 2 for each functional-difficulty flag + 1 if BMI < 25.
C13_LeeSum ==
    (/\ HasLee
     /\ mrow.age.t = "num" /\ mrow.age.n >= 50 * mrow.age.d
     /\ mrow.smoking_status.t = "str"
     /\ mrow.bmi.t = "num")
        => LET yes(k) == IF mrow[k] = BoolV(TRUE) THEN 1 ELSE 0
           IN  lee_points =
                 Some(C13_AgePoints(PyRound(F(mrow.age.n, mrow.age.d)))
                      + (IF mrow.sex = StrV(T_male) THEN 2 ELSE 0)
                      + (IF mrow.smoking_status
                              \in {StrV(Tok.current_le10), StrV(Tok.current_gt10)}
                         THEN 2 ELSE 0)
                      + yes("diabetes")
                      + 2 * (yes("non_skin_cancer") + yes("copd")
                             + yes("heart_failure"))
                      + 2 * (yes("difficulty_bathing")
                             + yes("difficulty_managing_money")
                             + yes("difficulty_walking"))
                      + (IF mrow.bmi.n < 25 * mrow.bmi.d THEN 1 ELSE 0))

\* The 8 bands of C14: lower end, upper end (none for the last), percent.
C14_Bands ==
    << <<0, 4, 4>>, <<5, 6, 6>>, <<7, 8, 10>>, <<9, 10, 15>>, <<11, 12, 22>>,
       <<13, 14, 32>>, <<15, 16, 45>>, <<17, 17, 64>> >>

\* C14: every total lee_points_from_row returns lies in exactly one of the
\* 8 bands and gets that band's percentage; the percentage is NaN exactly
\* when the points are None; and no smaller total gets a larger percentage.
C14_PointsToMortality ==
    HasLee
        => /\ isnan(lee_pct) <=> (lee_points = None)
           /\ lee_points.some
                => LET in(i) == /\ C14_Bands[i][1] <= lee_points.v
                                /\ (i < 8 => lee_points.v <= C14_Bands[i][2])
                   IN  /\ Cardinality({i \in 1..8 : in(i)}) = 1
                       /\ \A i \in 1..8 :
                              in(i) => lee_pct = F(C14_Bands[i][3], 1)
                       /\ \A p \in 0..lee_points.v :
                              FLe(lee_mortality_pct(Some(p)), lee_pct)

\* C14 witness: the largest total, 25 points, in the open last band.
C14_Witness ==
    /\ mpc = "lee"
    /\ lee_points = Some(25)
    /\ lee_pct = F(64, 1)

-----------------------------------------------------------------------------
(* SpecCScore: each C-score input given, missing or unparseable.           *)

CScoreRows ==
    { [MortRow EXCEPT !.self_rated_health = h, !.whtr = w, !.resting_hr = hr,
                      !.smoking_status = st, !.smoker = sm,
                      !.drinks_per_week = dr, !.sleep_hours = sl] :
      h \in {StrV(Tok.excellent), StrV(Tok.very_good_sp), NoneV, NaNV,
             StrV(T_abc)},
      w \in {NumV(45, 100), NumV(52, 100), NoneV, StrV(T_abc)},
      hr \in {IntV(60), IntV(70), NoneV, NaNV},
      st \in {StrV(Tok.never), StrV(Tok.current_le10), AbsentV, NoneV, NaNV,
              StrV(T_na), StrV(<<>>)},
      sm \in {AbsentV, BoolV(TRUE)},
      dr \in {IntV(2), IntV(10), NoneV, StrV(T_abc)},
      sl \in {NumV(75, 10), IntV(6), NoneV, NaNV} }

InitCScore == InitMortRows(CScoreRows)

SpecCScore == InitCScore /\ [][NextMort]_vars

\* The values that are no usable input.
C15_Missing == {AbsentV, NoneV, NaNV, StrV(T_abc), StrV(T_na), StrV(<<>>)}

\* C15: when any of the six inputs (self-rated health, WHtR, resting heart
\* rate, smoking category, weekly alcohol, sleep hours) is missing or
\* unparseable, c_score_from_row returns None.
C15_AllOrNothing ==
    (/\ HasCScore
     /\ \E k \in {"self_rated_health", "whtr", "resting_hr", "smoking_status",
                  "drinks_per_week", "sleep_hours"} : mrow[k] \in C15_Missing)
        => c_score = None

-----------------------------------------------------------------------------
(* SpecCategory: c_score_category applied to every score around its        *)
(* thresholds, and to None.                                                *)

MaxScore == 105

InitCategory ==
    /\ mrow = MortRow
    /\ mpc = "c_score"
    /\ lee_points = None
    /\ lee_pct = NaN
    /\ c_score \in {None} \cup {Some(i) : i \in -5..MaxScore}
    /\ c_category = << >>
    /\ row = GoldenRow
    /\ pc = "off"
    /\ points = None
    /\ framingham_risk = NaN
    /\ mhf_risk = NaN
    /\ call = NoCall
    /\ SmpIdle
    /\ AsmIdle

NextCategory == ApplyCategory

SpecCategory == InitCategory /\ [][NextCategory]_vars

\* C16 as stated: every integer score >= 90 is 'Excellent, low risk',
\* 75..89 'Good', 60..74 'Needs improvement', below 60 'Elevated risk';
\* 'unknown' only for a None score; None never 'Elevated risk'.
C16_CategoriesAll ==
    (mpc = "category")
        => /\ c_score.some
                => c_category =
                     (IF c_score.v >= 90 THEN Tok.Excellent_low_risk
                      ELSE IF c_score.v >= 75 THEN Tok.Good
                      ELSE IF c_score.v >= 60 THEN Tok.Needs_improvement
                      ELSE Tok.Elevated_risk)
           /\ (c_category = Tok.unknown) => ~c_score.some
           /\ ~c_score.some => c_category # Tok.Elevated_risk

\* C16 amended: 'Excellent, low risk' for 90..100 (100 being the largest
\* C-score), 'Good' for 75..89, 'Needs improvement' for 60..74, 'Elevated
\* risk' below 60; 'unknown' for a None score and for a score above 100;
\* None never 'Elevated risk'.
C16_Categories ==
    (mpc = "category")
        => /\ (c_score.some /\ c_score.v <= 100)
                => c_category =
                     (IF c_score.v >= 90 THEN Tok.Excellent_low_risk
                      ELSE IF c_score.v >= 75 THEN Tok.Good
                      ELSE IF c_score.v >= 60 THEN Tok.Needs_improvement
                      ELSE Tok.Elevated_risk)
           /\ (c_category = Tok.unknown)
                <=> (~c_score.some \/ c_score.v > 100)
           /\ (c_score = Some(90)) => c_category = Tok.Excellent_low_risk
           /\ (c_score = Some(89)) => c_category = Tok.Good
           /\ (c_score = Some(59)) => c_category = Tok.Elevated_risk

\* C16 witness: the None score categorised as 'unknown'.
C16_Witness ==
    /\ mpc = "category"
    /\ c_score = None
    /\ c_category = Tok.unknown

-----------------------------------------------------------------------------
(* src/mhf/sampling.py and the kind dispatch of draw_numeric               *)
(* (src/mhf/generator.py).  A random draw is a choice among the values of  *)
(* the distribution's support that lie on a grid of halves; the shape      *)
(* parameters (mean, sd, alpha, beta) only weight that choice.             *)

MaxBound == 2
MaxSize == 2

FAdd(a0, b0) ==
    Only({ IF a.nan \/ b.nan THEN NaN
           ELSE F(a.n * b.d + b.n * a.d, a.d * b.d) :
           a \in {a0}, b \in {b0} })

\* The sampler draw_numeric calls for a distribution kind.
draw_numeric(kind) ==
    CASE kind = "uniform"   -> "sample_uniform"
      [] kind = "normal"    -> "sample_normal"
      [] kind = "lognormal" -> "sample_lognormal"
      [] kind = "beta"      -> "sample_beta_scaled"
      [] OTHER              -> "sample_uniform"

\* The grid values between two bounds given in either order, which is where
\* np.random.uniform(low, high) = low + (high - low) * random() falls.
GridBetween(low, high) ==
    {F(k, 2) : k \in (2 * SetMin({low, high}))..(2 * SetMax({low, high}))}

\* Grid values of the support of the log-normal distribution: positive
\* numbers, some below, some inside and some above the bounds drawn.
LognormalSupport == {F(k, 1) : k \in 1..3}

\* Mutant of OutOfRange: a value on a bound counts as out of range.
OutOfRange_strict(x, low, high) == FLe(x, F(low, 1)) \/ FLe(F(high, 1), x)

\* (out < low) | (out > high), for one element
OutOfRange(x, low, high) == FLt(x, F(low, 1)) \/ FLt(F(high, 1), x)

\* np.clip(x, low, high) = minimum(maximum(x, low), high), for one element
np_clip(x0, low, high) ==
    Only({ IF FLt(F(high, 1), m) THEN F(high, 1) ELSE m :
           m \in {IF FLt(x0, F(low, 1)) THEN F(low, 1) ELSE x0} })

\* A call draw_numeric(field, low, high) for n rows is about to be made.
InitSampler ==
    /\ \E kind \in {"uniform", "normal", "lognormal", "beta", "triangular"},
          low \in 0..MaxBound, high \in 0..MaxBound, n \in 1..MaxSize :
           smp = [pc |-> "call", fn |-> draw_numeric(kind), kind |-> kind,
                  low |-> low, high |-> high, size |-> n, out |-> << >>,
                  tries |-> 0]
    /\ row = GoldenRow
    /\ pc = "off"
    /\ points = None
    /\ framingham_risk = NaN
    /\ mhf_risk = NaN
    /\ call = NoCall
    /\ MortIdle
    /\ AsmIdle

\* sample_uniform(low, high, size)
SampleUniform ==
    /\ smp.pc = "call" /\ smp.fn = "sample_uniform"
    /\ \E out \in [1..smp.size -> GridBetween(smp.low, smp.high)] :
           smp' = [smp EXCEPT !.out = out, !.pc = "done"]
    /\ UNCHANGED <<row, pc, points, framingham_risk, mhf_risk, call, mortVars,
                   asmVars>>

\* sample_normal(low, high, mean, sd, size): truncnorm.rvs(a, b, ...) draws
\* inside [low, high] when a < b and rejects its arguments (ValueError)
\* otherwise.
SampleNormal ==
    /\ smp.pc = "call" /\ smp.fn = "sample_normal"
    /\ IF smp.low < smp.high
       THEN \E out \in [1..smp.size -> GridBetween(smp.low, smp.high)] :
                smp' = [smp EXCEPT !.out = out, !.pc = "done"]
       ELSE smp' = [smp EXCEPT !.pc = "raised"]
    /\ UNCHANGED <<row, pc, points, framingham_risk, mhf_risk, call, mortVars,
                   asmVars>>

\* sample_lognormal, lines 19-22: the first draw
LognormalDraw ==
    /\ smp.pc = "call" /\ smp.fn = "sample_lognormal"
    /\ \E out \in [1..smp.size -> LognormalSupport] :
           smp' = [smp EXCEPT !.out = out, !.tries = 0, !.pc = "loop"]
    /\ UNCHANGED <<row, pc, points, framingham_risk, mhf_risk, call, mortVars,
                   asmVars>>

\* sample_lognormal, lines 23-26: one round of the while loop
LognormalRedraw ==
    /\ smp.pc = "loop"
    /\ \E i \in 1..smp.size : OutOfRange(smp.out[i], smp.low, smp.high)
    /\ smp.tries < 10
    /\ \E mask \in {{i \in 1..smp.size :
                          OutOfRange(smp.out[i], smp.low, smp.high)}} :
           \E new \in [mask -> LognormalSupport] :
               smp' = [smp EXCEPT
                         !.out = [i \in 1..smp.size |->
                                    IF i \in mask THEN new[i] ELSE smp.out[i]],
                         !.tries = smp.tries + 1]
    /\ UNCHANGED <<row, pc, points, framingham_risk, mhf_risk, call, mortVars,
                   asmVars>>

\* sample_lognormal, line 28: the loop is left and the result is clipped
LognormalClip ==
    /\ smp.pc = "loop"
    /\ ~(/\ \E i \in 1..smp.size : OutOfRange(smp.out[i], smp.low, smp.high)
         /\ smp.tries < 10)
    /\ smp' = [smp EXCEPT
                 !.out = [i \in 1..smp.size |->
                            np_clip(smp.out[i], smp.low, smp.high)],
                 !.pc = "done"]
    /\ UNCHANGED <<row, pc, points, framingham_risk, mhf_risk, call, mortVars,
                   asmVars>>

\* sample_beta_scaled(low, high, alpha, beta, size)
SampleBeta ==
    /\ smp.pc = "call" /\ smp.fn = "sample_beta_scaled"
    /\ \E raw \in [1..smp.size -> {F(0, 1), F(1, 2), F(1, 1)}] :
           smp' = [smp EXCEPT
                     !.out = [i \in 1..smp.size |->
                                FAdd(F(smp.low, 1),
                                     FMul(raw[i], F(smp.high - smp.low, 1)))],
                     !.pc = "done"]
    /\ UNCHANGED <<row, pc, points, framingham_risk, mhf_risk, call, mortVars,
                   asmVars>>

NextSampler ==
    \/ SampleUniform
    \/ SampleNormal
    \/ LognormalDraw
    \/ LognormalRedraw
    \/ LognormalClip
    \/ SampleBeta

SpecSampler == InitSampler /\ [][NextSampler]_vars

\* Each sampler runs to its return once called.
SpecSamplerFair == SpecSampler /\ WF_vars(NextSampler)

\* C17: for every distribution kind and every specification with
\* low <= high, the sampler returns exactly n values and each lies in
\* [low, high].
C17_SamplerBounds ==
    (smp.pc \in {"done", "raised"} /\ smp.low <= smp.high)
        => /\ smp.pc = "done"
           /\ Len(smp.out) = smp.size
           /\ \A i \in 1..Len(smp.out) :
                  /\ FLe(F(smp.low, 1), smp.out[i])
                  /\ FLe(smp.out[i], F(smp.high, 1))

\* x lies in [low, high]
C18_InRange(x, low, high) == FLe(F(low, 1), x) /\ FLe(x, F(high, 1))

\* C18: a round of the lognormal loop happens only while some value is
\* outside [low, high] and fewer than 10 rounds were made, and leaves every
\* value already in range as it is; the loop is left only when every value
\* is in range or 10 rounds were made, each value then being clamped to the
\* nearest bound of [low, high], low <= high (a value in range is returned
\* unchanged); and the call always terminates.
C18_LognormalRetry ==
    /\ [][(smp.pc = "loop" /\ smp'.pc = "loop")
            => /\ \E i \in 1..smp.size :
                      ~C18_InRange(smp.out[i], smp.low, smp.high)
               /\ smp'.tries = smp.tries + 1
               /\ smp'.tries <= 10
               /\ \A i \in 1..smp.size :
                      C18_InRange(smp.out[i], smp.low, smp.high)
                          => smp'.out[i] = smp.out[i]]_vars
    /\ [][(smp.pc = "loop" /\ smp'.pc = "done" /\ smp.low <= smp.high)
            => /\ \/ smp.tries = 10
                  \/ \A i \in 1..smp.size :
                         C18_InRange(smp.out[i], smp.low, smp.high)
               /\ \A i \in 1..smp.size :
                      smp'.out[i] =
                        (IF C18_InRange(smp.out[i], smp.low, smp.high)
                         THEN smp.out[i]
                         ELSE IF FLt(F(smp.high, 1), smp.out[i])
                         THEN F(smp.high, 1)
                         ELSE F(smp.low, 1))]_vars
    /\ <>(smp.pc \in {"done", "raised"})

\* C18 witness: a lognormal call that used all 10 rounds and returned.
C18_Witness ==
    /\ smp.fn = "sample_lognormal"
    /\ smp.pc = "done"
    /\ smp.tries = 10
    /\ smp.low <= smp.high
    /\ \A i \in 1..smp.size : C18_InRange(smp.out[i], smp.low, smp.high)

\* C19: with low > high the sampler raises for every distribution kind; it
\* never returns values.
C19_FailFast ==
    (smp.pc \in {"done", "raised"} /\ smp.low > smp.high)
        => smp.pc = "raised"

-----------------------------------------------------------------------------
(* SpecCategorical: sample_categorical called with three weights, directly *)
(* and through the smoking weights of generate_mortality_profiles.         *)

MaxWeight == 2

\* numpy's a / b on floats: 0 / 0 is nan
np_divide(a0, b0) ==
    Only({ IF b.n = 0 THEN NaN ELSE FDiv(a, b) : a \in {a0}, b \in {b0} })

\* proportions / proportions.sum()
Normalised(p0) ==
    Only({ [i \in 1..3 |-> np_divide(p[i], sum)] :
           p \in {p0}, sum \in {FAdd(FAdd(p0[1], p0[2]), p0[3])} })

\* smk_probs of generate_mortality_profiles: normalised when the sum is
\* positive, uniform otherwise.
smk_probs(w0) ==
    Only({ IF FLt(F(0, 1), sum) THEN Normalised(w)
           ELSE [i \in 1..3 |-> F(1, 3)] :
           w \in {w0}, sum \in {FAdd(FAdd(w0[1], w0[2]), w0[3])} })

InitCategorical ==
    /\ \E w \in [1..3 -> {F(k, 1) : k \in 0..MaxWeight}], n \in 1..MaxSize,
          caller \in {"direct", "generate_mortality_profiles"} :
           smp = [pc |-> "call", fn |-> "sample_categorical",
                  caller |-> caller, weights |-> w,
                  proportions |-> IF caller = "direct" THEN w ELSE smk_probs(w),
                  size |-> n, out |-> << >>]
    /\ row = GoldenRow
    /\ pc = "off"
    /\ points = None
    /\ framingham_risk = NaN
    /\ mhf_risk = NaN
    /\ call = NoCall
    /\ MortIdle
    /\ AsmIdle

\* sample_categorical(proportions, size): np.random.choice rejects
\* probabilities that contain NaN (ValueError) and otherwise draws among
\* the indices of positive probability.
SampleCategorical ==
    /\ smp.pc = "call" /\ smp.fn = "sample_categorical"
    /\ \E p \in {Normalised(smp.proportions)} :
           IF \E i \in 1..3 : isnan(p[i])
           THEN smp' = [smp EXCEPT !.proportions = p, !.pc = "raised"]
           ELSE \E out \in [1..smp.size ->
                              {i - 1 : i \in {j \in 1..3 : FLt(F(0, 1), p[j])}}] :
                    smp' = [smp EXCEPT !.proportions = p, !.out = out,
                                       !.pc = "done"]
    /\ UNCHANGED <<row, pc, points, framingham_risk, mhf_risk, call, mortVars,
                   asmVars>>

NextCategorical == SampleCategorical

SpecCategorical == InitCategorical /\ [][NextCategorical]_vars

\* C20: with all weights zero the categorical sampler falls back to a
\* uniform split and returns n indices in 0..k-1; with non-negative weights
\* of positive sum the weights are renormalised to sum to 1 and only
\* categories of positive weight are drawn.
C20_Categorical ==
    (smp.pc \in {"done", "raised"} /\ smp.caller = "direct")
        => LET zero == \A i \in 1..3 : smp.weights[i] = F(0, 1)
           IN  /\ smp.pc = "done"
               /\ Len(smp.out) = smp.size
               /\ \A j \in 1..Len(smp.out) : smp.out[j] \in 0..2
               /\ ~zero
                    => /\ FAdd(FAdd(smp.proportions[1], smp.proportions[2]),
                               smp.proportions[3]) = F(1, 1)
                       /\ \A j \in 1..Len(smp.out) :
                              FLt(F(0, 1), smp.weights[smp.out[j] + 1])

-----------------------------------------------------------------------------
(* SpecFrame: a two-row frame scored by several callers.  Each compute_*   *)
(* is df.apply(fn, axis=1); the callers' row calls interleave in any       *)
(* order, and every (row, function) pair is called up to MaxCalls times.   *)
(* A row call is one step: the scoring functions read the row and module   *)
(* constants only and assign to locals only.                               *)

MaxCalls == 2

CvdFns == {"framingham_points_from_row", "framingham_risk_from_row",
           "mhf_risk_row"}

MortFns == {"lee_points_from_row", "c_score_from_row"}

\* Mutant of RowApply: the result of the first call of fn on any row of
\* the frame is remembered and returned for every later call of fn.
RowApply_cached(fn, r) ==
    Only({ IF seen # {} THEN frame.out[SetMin(seen)][fn][1]
           ELSE CASE fn = "framingham_points_from_row" ->
                         framingham_points_from_row(r)
                  [] fn = "framingham_risk_from_row" ->
                         framingham_risk_from_row(r)
                  [] fn = "mhf_risk_row" -> mhf_risk_row(r)
                  [] fn = "lee_points_from_row" -> lee_points_from_row(r)
                  [] fn = "c_score_from_row" -> c_score_from_row(r) :
           seen \in {{i \in 1..Len(frame.rows) : frame.out[i][fn] # << >>}} })

\* fn(row), as df.apply(fn, axis=1) calls it for one row.
RowApply(fn, r) ==
    CASE fn = "framingham_points_from_row" -> framingham_points_from_row(r)
      [] fn = "framingham_risk_from_row" -> framingham_risk_from_row(r)
      [] fn = "mhf_risk_row" -> mhf_risk_row(r)
      [] fn = "lee_points_from_row" -> lee_points_from_row(r)
      [] fn = "c_score_from_row" -> c_score_from_row(r)

FrameCvdRows ==
    {GoldenRow,
     [GoldenRow EXCEPT !.sex = StrV(T_female), !.met_min = IntV(500)],
     [GoldenRow EXCEPT !.tc = NaNV]}

FrameMortRows ==
    {MortRow,
     [MortRow EXCEPT !.age = IntV(45), !.drinks_per_week = IntV(10)],
     [MortRow EXCEPT !.whtr = NoneV, !.diabetes = BoolV(TRUE)]}

InitFrame ==
    /\ \E kind \in {"cvd", "mortality"} :
       \E fns \in {IF kind = "cvd" THEN CvdFns ELSE MortFns},
          rows \in {IF kind = "cvd" THEN FrameCvdRows ELSE FrameMortRows} :
       \E r1 \in rows, r2 \in rows :
           frame = [pc |-> "scoring", fns |-> fns, rows |-> <<r1, r2>>,
                    out |-> [i \in 1..2 |-> [fn \in fns |-> << >>]]]
    /\ row = GoldenRow
    /\ pc = "off"
    /\ points = None
    /\ framingham_risk = NaN
    /\ mhf_risk = NaN
    /\ call = NoCall
    /\ MortIdle
    /\ SmpIdle
    /\ gen = [pc |-> "off"]
    /\ debug = [pc |-> "off"]

\* One caller's df.apply(fn, axis=1) reaches row i.
ScoreRow ==
    /\ frame.pc = "scoring"
    /\ \E i \in 1..Len(frame.rows), fn \in frame.fns :
           /\ Len(frame.out[i][fn]) < MaxCalls
           /\ frame' = [frame EXCEPT
                            !.out[i][fn] = Append(@, RowApply(fn, frame.rows[i]))]
    /\ UNCHANGED <<row, pc, points, framingham_risk, mhf_risk, call,
                   mortVars, smp, gen, debug>>

NextFrame == ScoreRow

SpecFrame == InitFrame /\ [][NextFrame]_vars

\* The result of fn on a row scored on its own.
C21_Alone(fn, r) ==
    CASE fn = "framingham_points_from_row" -> framingham_points_from_row(r)
      [] fn = "framingham_risk_from_row" -> framingham_risk_from_row(r)
      [] fn = "mhf_risk_row" -> mhf_risk_row(r)
      [] fn = "lee_points_from_row" -> lee_points_from_row(r)
      [] fn = "c_score_from_row" -> c_score_from_row(r)

-----------------------------------------------------------------------------
(* SpecBands: the banded C-score inputs on a fine grid.  Each row is the   *)
(* complete row MortRow with one of weekly alcohol (tenths, as the         *)
(* assembler rounds it), WHtR (thousandths, it is not rounded) and sleep   *)
(* hours (twentieths) replaced.                                            *)

MaxAlcoholTenths == 250
MaxWhtrMilli == 650
MaxSleepTwentieths == 230

BandRows ==
    {[MortRow EXCEPT !.drinks_per_week = NumV(k, 10)] :
         k \in 0..MaxAlcoholTenths}
    \cup {[MortRow EXCEPT !.whtr = NumV(k, 1000)] : k \in 400..MaxWhtrMilli}
    \cup {[MortRow EXCEPT !.sleep_hours = NumV(k, 20)] :
              k \in -20..MaxSleepTwentieths}
    \cup {[MortRow EXCEPT !.sleep_hours = h] :
              h \in {IntV(5), IntV(9), StrV(<<"6", ".", "5">>)}}

InitBands == InitMortRows(BandRows)

SpecBands == InitBands /\ [][NextMort]_vars

\* The row differs from MortRow in the given field only.
OnlyFieldVaried(key) == mrow = [MortRow EXCEPT ![key] = mrow[key]]

\* C22: for every non-negative weekly alcohol value, one-decimal values
\* included, exactly one of four contiguous bands applies: up to 7 gives
\* 10 points, then up to 14 gives 7, then up to 21 gives 3, above gives 0.
C22_AlcoholBands ==
    (HasCScore /\ OnlyFieldVaried("drinks_per_week")
     /\ mrow.drinks_per_week.t = "num" /\ mrow.drinks_per_week.n >= 0)
        => LET v == F(mrow.drinks_per_week.n, mrow.drinks_per_week.d)
               band == IF FLe(v, F(7, 1)) THEN 10
                       ELSE IF FLe(v, F(14, 1)) THEN 7
                       ELSE IF FLe(v, F(21, 1)) THEN 3
                       ELSE 0
           IN  c_score = Some(90 + band)

\* C23: for every numeric WHtR exactly one of four contiguous bands
\* applies: below 0.50 gives 20 points, 0.50 up to 0.55 gives 14, 0.55 up
\* to 0.60 gives 6, 0.60 and above gives 0.
C23_WhtrBands ==
    (HasCScore /\ OnlyFieldVaried("whtr") /\ mrow.whtr.t = "num")
        => LET v == F(mrow.whtr.n, mrow.whtr.d)
               band == IF FLt(v, F(50, 100)) THEN 20
                       ELSE IF FLt(v, F(55, 100)) THEN 14
                       ELSE IF FLt(v, F(60, 100)) THEN 6
                       ELSE 0
           IN  c_score = Some(80 + band)

\* C24: for every numeric sleep value h the sleep points are 10 when
\* 7 <= h <= 8, 7 when 6 <= h < 7 or 8 < h <= 9, 3 when 5 <= h < 6 or
\* 9 < h <= 10, and 0 when h < 5 or h > 10; the final fall-through
\* 'return 0' is never reached.
C24_SleepBands ==
    (HasCScore /\ OnlyFieldVaried("sleep_hours")
     /\ ~isnan(_to_float(mrow.sleep_hours)))
        => LET h == _to_float(mrow.sleep_hours)
               pts == IF FLe(F(7, 1), h) /\ FLe(h, F(8, 1)) THEN 10
                      ELSE IF (FLe(F(6, 1), h) /\ FLt(h, F(7, 1)))
                              \/ (FLt(F(8, 1), h) /\ FLe(h, F(9, 1))) THEN 7
                      ELSE IF (FLe(F(5, 1), h) /\ FLt(h, F(6, 1)))
                              \/ (FLt(F(9, 1), h) /\ FLe(h, F(10, 1))) THEN 3
                      ELSE 0
           IN  /\ c_score = Some(90 + pts)
               /\ ~_sleep_points_falls_through(mrow.sleep_hours)

\* Sleep of 8.55 hours has been scored: 7 points.
C24_Witness ==
    /\ HasCScore
    /\ OnlyFieldVaried("sleep_hours")
    /\ mrow.sleep_hours = NumV(171, 20)
    /\ c_score = Some(97)

-----------------------------------------------------------------------------
(* src/mhf/generator.py: generate_profiles, and the CVD pipeline of app.py *)
(* on the frame it returns.  A draw of draw_numeric(field, low, high) is a *)
(* choice among low, high and their midpoint.                              *)

MaxRows == 2

\* params.get(key, default)
ParamsGet(v, default) == IF v = AbsentV THEN default ELSE v

\* The values one draw of draw_numeric(field, low, high) may return.
Draws(low, high) == {low, FDiv(FAdd(low, high), F(2, 1)), high}

\* proportions of the sex split, and the labels indexed by the draw
SexProportions(cats) ==
    << F(cats.sex_male, 100), F(cats.sex_female, 100),
       Only({ IF FLt(F(0, 1), rest) THEN rest ELSE F(0, 1) :
              rest \in {FSub(F(1, 1),
                             F(cats.sex_male + cats.sex_female, 100))} }) >>

SexLabels == <<T_male, T_female, T_other>>

\* Mutant of ShiftedSbp: the shift is subtracted from every row.
ShiftedSbp_every(sbp, on_bp_meds, sbp_shift) == FSub(sbp, sbp_shift)

\* sbp - (on_bp_meds.astype(float) * sbp_shift), for one row
ShiftedSbp(sbp, on_bp_meds, sbp_shift) ==
    FSub(sbp, FMul(IF on_bp_meds THEN F(1, 1) ELSE F(0, 1), sbp_shift))

\* The value of a float as a cell of the frame.
Cell(x) == IF isnan(x) THEN NaNV ELSE NumV(x.n, x.d)

ProfileParams ==
    [n: 1..MaxRows,
     sbp_min: {0, 110}, sbp_max: {130},
     age_min: {18}, age_max: {61},
     sex_male: {100, 0}, sex_female: {0},
     sbp_meds_shift: {AbsentV, IntV(0), IntV(10), IntV(150)}]

InitProfiles ==
    /\ \E params \in ProfileParams :
           gen = [pc |-> "params", fn |-> "generate_profiles",
                  params |-> params, age |-> << >>, sbp |-> << >>,
                  sex |-> << >>, on_bp_meds |-> << >>, df |-> << >>]
    /\ row = GoldenRow
    /\ pc = "off"
    /\ points = None
    /\ framingham_risk = NaN
    /\ mhf_risk = NaN
    /\ call = NoCall
    /\ MortIdle
    /\ SmpIdle
    /\ frame = [pc |-> "off"]
    /\ debug = [pc |-> "off"]

\* Lines 34-55: the numeric fields, the sex split and the binary flags are
\* sampled.  Every row draws its own SBP and medication flag; one age is
\* drawn for the frame.
DrawProfiles ==
    /\ gen.pc = "params" /\ gen.fn = "generate_profiles"
    /\ \E p \in {gen.params} :
       \E n \in {p.n}, props \in {Normalised(SexProportions(p))} :
       \E age \in Draws(F(p.age_min, 1), F(p.age_max, 1)),
          sbp \in [1..n -> Draws(F(p.sbp_min, 1), F(p.sbp_max, 1))],
          on_bp_meds \in [1..n -> BOOLEAN],
          sex_idx \in [1..n -> {i - 1 : i \in {j \in 1..3 : FLt(F(0, 1), props[j])}}] :
           gen' = [gen EXCEPT !.pc = "drawn",
                              !.age = [i \in 1..n |-> age],
                              !.sbp = sbp,
                              !.on_bp_meds = on_bp_meds,
                              !.sex = [i \in 1..n |-> SexLabels[sex_idx[i] + 1]]]
    /\ UNCHANGED <<row, pc, points, framingham_risk, mhf_risk, call,
                   mortVars, smp, frame, debug>>

\* Lines 58-59: the optional SBP shift for those on medication.
ShiftSbp ==
    /\ gen.pc = "drawn" /\ gen.fn = "generate_profiles"
    /\ \E sbp_shift \in {_to_float(ParamsGet(gen.params.sbp_meds_shift,
                                             IntV(0)))} :
           gen' = [gen EXCEPT !.pc = "shifted",
                              !.sbp = [i \in 1..Len(gen.sbp) |->
                                         ShiftedSbp(gen.sbp[i], gen.on_bp_meds[i],
                                                    sbp_shift)]]
    /\ UNCHANGED <<row, pc, points, framingham_risk, mhf_risk, call,
                   mortVars, smp, frame, debug>>

\* Lines 61-74: the frame is built; age is rounded to an integer.
BuildProfiles ==
    /\ gen.pc = "shifted" /\ gen.fn = "generate_profiles"
    /\ gen' = [gen EXCEPT !.pc = "frame",
                          !.df = [i \in 1..Len(gen.sbp) |->
                                    [sex |-> StrV(gen.sex[i]),
                                     age |-> IntV(PyRound(gen.age[i])),
                                     bmi |-> IntV(28),
                                     cvd |-> BoolV(FALSE),
                                     sbp |-> Cell(gen.sbp[i]),
                                     on_bp_meds |-> BoolV(gen.on_bp_meds[i]),
                                     tc |-> NumV(52, 10),
                                     hdl |-> NumV(13, 10),
                                     diabetes |-> BoolV(FALSE),
                                     smoker |-> BoolV(TRUE),
                                     met_min |-> IntV(1500)]]]
    /\ UNCHANGED <<row, pc, points, framingham_risk, mhf_risk, call,
                   mortVars, smp, frame, debug>>

\* app.py 659-660: the scorers are applied to the frame; df.apply reaches
\* one of its rows.
ApplyToProfile ==
    /\ gen.pc = "frame" /\ gen.fn = "generate_profiles"
    /\ pc = "off"
    /\ \E i \in 1..Len(gen.df) : row' = gen.df[i]
    /\ pc' = "row"
    /\ UNCHANGED <<points, framingham_risk, mhf_risk, call, mortVars, smp,
                   asmVars>>

NextProfiles ==
    \/ DrawProfiles
    \/ ShiftSbp
    \/ BuildProfiles
    \/ ApplyToProfile
    \/ FraminghamPoints
    \/ ComputeFramingham
    \/ ComputeMhf

SpecProfiles == InitProfiles /\ [][NextProfiles]_vars

\* C25: the adjustment subtracts exactly the configured shift from the
\* sampled SBP of every row on medication, keeps the sampled SBP of every
\* other row, and changes no other field; with the default shift of 0
\* every SBP stays at its sampled value; the frame carries these values.
C25_SbpShift ==
    /\ [][(gen.pc = "drawn" /\ gen'.pc = "shifted")
            => /\ \A i \in 1..gen.params.n :
                      gen'.sbp[i] =
                        (IF gen.on_bp_meds[i] /\ gen.params.sbp_meds_shift # AbsentV
                         THEN FSub(gen.sbp[i],
                                   F(gen.params.sbp_meds_shift.n,
                                     gen.params.sbp_meds_shift.d))
                         ELSE gen.sbp[i])
               /\ gen'.age = gen.age /\ gen'.sex = gen.sex
               /\ gen'.on_bp_meds = gen.on_bp_meds
               /\ gen'.params = gen.params]_vars
    /\ [][(gen.pc = "shifted" /\ gen'.pc = "frame")
            => \A i \in 1..gen.params.n :
                   /\ gen'.df[i].sbp = NumV(gen.sbp[i].n, gen.sbp[i].d)
                   /\ gen'.df[i].on_bp_meds = BoolV(gen.on_bp_meds[i])]_vars

\* A frame with a shift of 10: the row on medication is 10 below the
\* lowest value the sampler returns, the other row is not.
C25_Witness ==
    /\ gen.pc = "frame" /\ gen.fn = "generate_profiles"
    /\ gen.params.sbp_meds_shift = IntV(10)
    /\ gen.params.sbp_min = 110
    /\ gen.params.n = 2
    /\ gen.df[1].on_bp_meds = BoolV(TRUE) /\ gen.df[1].sbp = IntV(100)
    /\ gen.df[2].on_bp_meds = BoolV(FALSE) /\ gen.df[2].sbp = IntV(110)

\* C29: every row of generate_profiles can be scored: for every
\* configuration with non-negative ranges, low <= high, and every value of
\* the SBP medication shift, each generated row gets a point total that is
\* not None and a framingham_risk and an mhf_risk that are not NaN.
C29_GeneratedScorable ==
    (/\ gen.pc = "frame" /\ gen.fn = "generate_profiles"
     /\ 0 <= gen.params.sbp_min /\ gen.params.sbp_min <= gen.params.sbp_max
     /\ 0 <= gen.params.age_min /\ gen.params.age_min <= gen.params.age_max)
        => /\ HasPoints => points.some
           /\ HasRisk => ~isnan(framingham_risk)
           /\ Scored => ~isnan(mhf_risk)

-----------------------------------------------------------------------------
(* src/mhf/generator.py: generate_mortality_profiles, and the mortality    *)
(* pipeline of app.py on the frame it returns.  The ranges are those the   *)
(* sidebar's range sliders can give (low <= high).                         *)

\* np.round(x, 1)
np_round1(x0) == F(PyRound(FMul(x0, F(10, 1))), 10)

\* bmi.mean()
Mean(xs) ==
    LET RECURSIVE Sum(_)
        Sum(k) == IF k = 0 THEN F(0, 1) ELSE FAdd(Sum(k - 1), xs[k])
    IN  FDiv(Sum(Len(xs)), F(Len(xs), 1))

\* Mutant of CoupledWhtr: the coupled value is not clipped to the range.
CoupledWhtr_unclipped(whtr_base, k, bmi, mean, low, high) ==
    FAdd(whtr_base, FMul(k, FSub(bmi, mean)))

\* np.clip(whtr_base + whtr_coupling * (bmi - bmi.mean()), low, high),
\* for one row
CoupledWhtr(whtr_base, k, bmi, mean, low, high) ==
    Only({ IF FLt(high, m) THEN high ELSE m :
           m \in {Only({ IF FLt(x, low) THEN low ELSE x :
                         x \in {FAdd(whtr_base, FMul(k, FSub(bmi, mean)))} })} })

smk_labels == <<Tok.never, Tok.former_gt1, Tok.former_lt1, Tok.current_le10,
                Tok.current_gt10>>

\* Mutant of srh_labels: a label the C-score table does not list.
srh_labels_unlisted ==
    << <<"E","x","c","e","l","l","e","n","t">>,
       <<"V","e","r","y"," ","g","o","o","d">>, Tok.Good,
       <<"A","v","e","r","a","g","e">>, <<"P","o","o","r">> >>

srh_labels ==
    << <<"E","x","c","e","l","l","e","n","t">>,
       <<"V","e","r","y"," ","g","o","o","d">>, Tok.Good,
       <<"F","a","i","r">>, <<"P","o","o","r">> >>

\* The indices sample_categorical can return for five weights after the
\* assembler's normalisation: those of positive weight, and all five when
\* the weights sum to zero (the uniform fallback).
LabelIndexes(w) ==
    IF \E i \in 1..5 : w[i] > 0 THEN {i \in 1..5 : w[i] > 0} ELSE 1..5

OneHot(j) == [i \in 1..5 |-> IF i = j THEN 100 ELSE 0]

\* Configurations that vary the BMI, the WHtR baseline and the coupling.
CouplingParams ==
    [n: 1..MaxRows,
     bmi: {<<F(18, 1), F(35, 1)>>}, whtr: {<<F(45, 100), F(65, 100)>>},
     resting_hr: {<<F(60, 1), F(60, 1)>>},
     whtr_bmi_coupling: {AbsentV, IntV(0), NumV(1, 100), NumV(-1, 100)},
     smoking: {OneHot(1)}, self_rated_health: {OneHot(1)}]

\* Configurations that vary the label weights and the resting heart rate.
LabelParams ==
    [n: 1..MaxRows,
     bmi: {<<F(27, 1), F(27, 1)>>}, whtr: {<<F(48, 100), F(48, 100)>>},
     resting_hr: {<<F(55, 1), F(96, 1)>>},
     whtr_bmi_coupling: {NumV(2, 1000)},
     smoking: {OneHot(1)},
     self_rated_health: {OneHot(2), [i \in 1..5 |-> 0]}]
    \cup
    [n: 1..MaxRows,
     bmi: {<<F(27, 1), F(27, 1)>>}, whtr: {<<F(48, 100), F(48, 100)>>},
     resting_hr: {<<F(55, 1), F(96, 1)>>},
     whtr_bmi_coupling: {NumV(2, 1000)},
     smoking: {OneHot(5), [i \in 1..5 |-> 0]},
     self_rated_health: {OneHot(1)}]

InitMortProfiles ==
    /\ \E params \in CouplingParams \cup LabelParams :
           gen = [pc |-> "params", fn |-> "generate_mortality_profiles",
                  params |-> params, bmi |-> << >>, whtr_base |-> << >>,
                  whtr |-> << >>, resting_hr |-> << >>,
                  smoking_status |-> << >>, srh |-> << >>, df |-> << >>]
    /\ mrow = << >>
    /\ mpc = "off"
    /\ lee_points = None
    /\ lee_pct = NaN
    /\ c_score = None
    /\ c_category = << >>
    /\ row = GoldenRow
    /\ pc = "off"
    /\ points = None
    /\ framingham_risk = NaN
    /\ mhf_risk = NaN
    /\ call = NoCall
    /\ SmpIdle
    /\ frame = [pc |-> "off"]
    /\ debug = [pc |-> "off"]

\* Lines 100-105: the numeric fields are sampled.  Every row draws its own
\* BMI and WHtR baseline; one resting heart rate is drawn for the frame.
DrawMortality ==
    /\ gen.pc = "params" /\ gen.fn = "generate_mortality_profiles"
    /\ \E p \in {gen.params} :
       \E n \in {p.n} :
       \E bmi \in [1..n -> Draws(p.bmi[1], p.bmi[2])],
          whtr_base \in [1..n -> Draws(p.whtr[1], p.whtr[2])],
          resting_hr \in Draws(p.resting_hr[1], p.resting_hr[2]) :
           gen' = [gen EXCEPT !.pc = "drawn", !.bmi = bmi,
                              !.whtr_base = whtr_base,
                              !.resting_hr = [i \in 1..n |-> resting_hr]]
    /\ UNCHANGED <<row, pc, points, framingham_risk, mhf_risk, call,
                   mortVars, smp, frame, debug>>

\* Lines 107-109: WHtR is coupled to BMI and clipped to its range.
CoupleWhtr ==
    /\ gen.pc = "drawn" /\ gen.fn = "generate_mortality_profiles"
    /\ \E p \in {gen.params}, mean \in {Mean(gen.bmi)} :
       \E k \in {_to_float(ParamsGet(p.whtr_bmi_coupling, IntV(0)))} :
           gen' = [gen EXCEPT !.pc = "coupled",
                              !.whtr = [i \in 1..Len(gen.bmi) |->
                                          CoupledWhtr(gen.whtr_base[i], k,
                                                      gen.bmi[i], mean,
                                                      p.whtr[1], p.whtr[2])]]
    /\ UNCHANGED <<row, pc, points, framingham_risk, mhf_risk, call,
                   mortVars, smp, frame, debug>>

\* Lines 119-155: the smoking and self-rated-health labels are sampled.
DrawLabels ==
    /\ gen.pc = "coupled" /\ gen.fn = "generate_mortality_profiles"
    /\ \E n \in {gen.params.n} :
       \E smk_idx \in [1..n -> LabelIndexes(gen.params.smoking)],
          srh_idx \in [1..n -> LabelIndexes(gen.params.self_rated_health)] :
           gen' = [gen EXCEPT !.pc = "labelled",
                              !.smoking_status =
                                  [i \in 1..n |-> smk_labels[smk_idx[i]]],
                              !.srh = [i \in 1..n |-> srh_labels[srh_idx[i]]]]
    /\ UNCHANGED <<row, pc, points, framingham_risk, mhf_risk, call,
                   mortVars, smp, frame, debug>>

\* Lines 157-176: the frame is built; the columns the scorers read.
BuildMortality ==
    /\ gen.pc = "labelled" /\ gen.fn = "generate_mortality_profiles"
    /\ gen' = [gen EXCEPT
                 !.pc = "frame",
                 !.df = [i \in 1..gen.params.n |->
                           [MortRow EXCEPT
                              !.bmi = Cell(gen.bmi[i]),
                              !.smoking_status = StrV(gen.smoking_status[i]),
                              !.self_rated_health = StrV(gen.srh[i]),
                              !.whtr = Cell(gen.whtr[i]),
                              !.resting_hr = IntV(PyRound(gen.resting_hr[i])),
                              !.drinks_per_week = Cell(np_round1(F(746, 100))),
                              !.sleep_hours = Cell(np_round1(F(723, 100)))]]]
    /\ UNCHANGED <<row, pc, points, framingham_risk, mhf_risk, call,
                   mortVars, smp, frame, debug>>

\* app.py 663-668: the scorers are applied to the frame; df.apply reaches
\* one of its rows.
ApplyToMortality ==
    /\ gen.pc = "frame" /\ gen.fn = "generate_mortality_profiles"
    /\ mpc = "off"
    /\ \E i \in 1..Len(gen.df) : mrow' = gen.df[i]
    /\ mpc' = "row"
    /\ UNCHANGED <<row, pc, points, framingham_risk, mhf_risk, call,
                   lee_points, lee_pct, c_score, c_category, smp, asmVars>>

NextMortProfiles ==
    \/ DrawMortality
    \/ CoupleWhtr
    \/ DrawLabels
    \/ BuildMortality
    \/ ApplyToMortality
    \/ ComputeLee
    \/ ComputeCScore
    \/ ApplyCategory

SpecMortProfiles == InitMortProfiles /\ [][NextMortProfiles]_vars

\* C26: every row's whtr equals clip(whtr_base + k x (bmi - mean of the
\* cohort's own BMI values), whtr_min, whtr_max); so it lies in
\* [whtr_min, whtr_max] for every coupling constant and cohort, and with
\* k = 0 it equals the sampled baseline.
C26_Coupling ==
    (gen.pc \in {"coupled", "labelled", "frame"}
     /\ gen.fn = "generate_mortality_profiles")
        => LET p == gen.params
               n == Len(gen.bmi)
               k == IF p.whtr_bmi_coupling = AbsentV THEN F(0, 1)
                    ELSE F(p.whtr_bmi_coupling.n, p.whtr_bmi_coupling.d)
               total == IF n = 1 THEN gen.bmi[1]
                        ELSE IF n = 2 THEN FAdd(gen.bmi[1], gen.bmi[2])
                        ELSE FAdd(FAdd(gen.bmi[1], gen.bmi[2]), gen.bmi[3])
               mean == FDiv(total, F(n, 1))
           IN  /\ n = p.n /\ n <= 3
               /\ \A i \in 1..n :
                      LET raw == FAdd(gen.whtr_base[i],
                                      FMul(k, FSub(gen.bmi[i], mean)))
                      IN  /\ gen.whtr[i] =
                                (IF FLt(raw, p.whtr[1]) THEN p.whtr[1]
                                 ELSE IF FLt(p.whtr[2], raw) THEN p.whtr[2]
                                 ELSE raw)
                          /\ FLe(p.whtr[1], gen.whtr[i])
                          /\ FLe(gen.whtr[i], p.whtr[2])
                          /\ (k = F(0, 1)) => gen.whtr[i] = gen.whtr_base[i]
                          /\ (gen.pc = "frame")
                                => gen.df[i].whtr = NumV(gen.whtr[i].n,
                                                         gen.whtr[i].d)

\* A cohort of two with k = 0.01: the heavier row's WHtR is clipped at the
\* top of the range, the lighter row's is coupled below its baseline.
C26_Witness ==
    /\ gen.pc = "frame" /\ gen.fn = "generate_mortality_profiles"
    /\ gen.params.whtr_bmi_coupling = NumV(1, 100)
    /\ gen.bmi = <<F(35, 1), F(18, 1)>>
    /\ gen.whtr_base = <<F(65, 100), F(55, 100)>>
    /\ gen.whtr = <<F(65, 100), F(465, 1000)>>

\* C28: every row of generate_mortality_profiles can be scored: the
\* self-rated-health and smoking labels are recognised by the C-score
\* tables, c_score_from_row returns an integer in 0..100 and
\* c_score_category never returns 'unknown'.
C28_MortalityScorable ==
    /\ (gen.pc = "frame" /\ gen.fn = "generate_mortality_profiles")
          => \A i \in 1..Len(gen.df) :
                 /\ _srh_points(gen.df[i].self_rated_health).some
                 /\ _smoking_points(_smoking_status(gen.df[i])).some
    /\ (gen.pc = "frame" /\ gen.fn = "generate_mortality_profiles"
        /\ HasCScore)
          => /\ c_score.some
             /\ c_score.v \in 0..100
    /\ (gen.pc = "frame" /\ gen.fn = "generate_mortality_profiles"
        /\ mpc = "category")
          => c_category # Tok.unknown

\* A generated row labelled 'Very good' / 'never', drawn under the uniform
\* fallback for all-zero self-rated-health weights, scored and categorised.
C28_Witness ==
    /\ gen.pc = "frame" /\ gen.fn = "generate_mortality_profiles"
    /\ mpc = "category"
    /\ gen.params.self_rated_health = [i \in 1..5 |-> 0]
    /\ mrow.self_rated_health = StrV(srh_labels[2])
    /\ mrow.smoking_status = StrV(Tok.never)
    /\ mrow.resting_hr = IntV(55)
    /\ c_score = Some(87)
    /\ c_category # Tok.unknown

-----------------------------------------------------------------------------
(* framingham_debug_row (src/mhf/risk_engine.py), called on a row that the *)
(* scorer also scores.                                                     *)

\* A call _tc_points_ccs(*args): the function has two required positional
\* parameters (tc_mmol, male); any other number of arguments raises
\* TypeError before the body runs.
Call_tc_points_ccs(args) ==
    IF Len(args) = 2
    THEN [ok |-> TRUE, exc |-> "", v |-> _tc_points_ccs(args[1], args[2])]
    ELSE [ok |-> FALSE, exc |-> "TypeError", v |-> None]

\* framingham_debug_row(row): the exception it raises, or the entries of
\* the dict it returns that carry points and the percentage.
framingham_debug_row(r0) ==
    Only({ IF ~tc_call.ok
           THEN [pc |-> "raised", exc |-> tc_call.exc, ret |-> << >>]
           ELSE Only({ Only({ [pc |-> "done", exc |-> "",
                               ret |-> [age_pts |-> comps[1],
                                        hdl_pts |-> comps[2],
                                        tc_pts |-> comps[3],
                                        sbp_pts |-> comps[4],
                                        smoker_pts |-> comps[5],
                                        diabetes_pts |-> comps[6],
                                        total_points |-> total,
                                        framingham_pct |->
                                            IF total.some
                                            THEN _risk_from_points_ccs(total.v, male)
                                            ELSE NaN]] :
                              total \in {IF \E i \in 1..6 : ~comps[i].some
                                         THEN None
                                         ELSE Some(comps[1].v + comps[2].v
                                                   + comps[3].v + comps[4].v
                                                   + comps[5].v + comps[6].v)} }) :
                       comps \in {<< _age_points_ccs(Get(r, "age"), male),
                                     _hdl_points_ccs(MmolOf(_to_float(Get(r, "hdl")))),
                                     tc_call.v,
                                     _sbp_points_ccs(Get(r, "sbp"),
                                                     _to_bool(Get(r, "on_bp_meds")),
                                                     male),
                                     _smoker_points_ccs(male, Get(r, "smoker")),
                                     _diabetes_points_ccs(male, Get(r, "diabetes")) >>} }) :
           r \in {r0}, male \in {_is_male(Get(r0, "sex"))},
           tc_call \in {Call_tc_points_ccs(
                            << MmolOf(_to_float(Get(r0, "tc"))) >>)} })

InitDebug ==
    /\ row \in Rows({StrV(T_M), StrV(T_female)}, {IntV(55), NoneV},
                    {NumV(52, 10), IntV(200), NaNV}, {NumV(13, 10)},
                    {IntV(140), NoneV},
                    {BoolV(FALSE), BoolV(TRUE)}, {BoolV(FALSE), BoolV(TRUE)},
                    {BoolV(FALSE)}, {IntV(0)}, {BoolV(FALSE)})
    /\ pc = "row"
    /\ points = None
    /\ framingham_risk = NaN
    /\ mhf_risk = NaN
    /\ call = NoCall
    /\ MortIdle
    /\ SmpIdle
    /\ frame = [pc |-> "off"]
    /\ gen = [pc |-> "off"]
    /\ debug = [pc |-> "call", exc |-> "", ret |-> << >>]

\* framingham_debug_row(row)
FraminghamDebugRow ==
    /\ debug.pc = "call"
    /\ debug' = framingham_debug_row(row)
    /\ UNCHANGED <<row, pc, points, framingham_risk, mhf_risk, call,
                   mortVars, smp, frame, gen>>

NextDebug ==
    \/ FraminghamDebugRow
    \/ FraminghamPoints
    \/ ComputeFramingham
    \/ ComputeMhf

SpecDebug == InitDebug /\ [][NextDebug]_vars

\* C30: for every row framingham_debug_row returns normally, its
\* total_points equals framingham_points_from_row(row), its framingham_pct
\* equals framingham_risk_from_row(row), and every reported component is
\* the value the scorer used, the sex-specific TC points included.
C30_DebugAgrees ==
    (debug.pc # "call" /\ HasRisk)
        => /\ debug.pc = "done"
           /\ debug.ret.total_points = points
           /\ debug.ret.framingham_pct = framingham_risk
           /\ << debug.ret.age_pts, debug.ret.hdl_pts, debug.ret.tc_pts,
                 debug.ret.sbp_pts, debug.ret.smoker_pts,
                 debug.ret.diabetes_pts >> = FraminghamComponents(row)

=============================================================================
